---- MODULE Spec2Model ----
(***************************************************************************)
(* State-machine model of the DeRadar Turbo Backup engine:                 *)
(*   AircraftTrackerService  (archive/aircraft-tracker.service.ts)         *)
(*   ArchiveService          (archive/archive.service.ts)                  *)
(*   EncryptionService       (common/utils/encryption.service.ts)          *)
(*   StatsBackupService      (archive/stats-backup.service.ts)             *)
(*                                                                         *)
(* Every handler is one action: the synchronous block that JavaScript runs *)
(* between two awaits.  Date.now() is the variable now; it only moves in   *)
(* AdvanceClock.  Random values (uuidv4, randomUUID, randomBytes) are      *)
(* fresh tokens named after the event that drew them.                      *)
(***************************************************************************)
EXTENDS Integers, Sequences, FiniteSets, TLC

\* ---------------------------------------------------------------- constants
REAPPEAR_THRESHOLD_MS == 5 * 60 * 1000
POLL_INTERVAL_MS == 500
MAX_CONCURRENT_UPLOADS == 5
MAX_AIRCRAFT_PER_BATCH == 30
MAX_ATTEMPTS == 5
BACKOFF_BASE_MS == 1000
BACKOFF_CAP_MS == 16000
MINUTE_MS == 60000
BUCKET_SIZE_MS == 5000
TOTAL_BUCKETS == 12
STORED_KEYS_KEPT == 5

Pipes == {"clear", "enc"}

\* ------------------------------------------------------------------- bounds
\* Environment profiles: how many polls the feed answers, how many upload
\* attempts the network or the database fails, how often the clock moves,
\* how many stats backups are taken.
LoadFails == 0
RetryPolls == 1
RetryFails == 5
RetryDbFails == 1
ClassifyPolls == 3
ClassifyTicks == 2
KeysPolls == 3
KeysTicks == 2
PairPolls == 2
PairFails == 1
BackupPolls == 1
BackupRuns == 2
BulkPolls == 2
MaxAircraft == 61
InvalidPolls == 1
DirtyPolls == 2
TracksPolls == 3
TracksTicks == 2
KeystorePolls == 2
RestoreRuns == 2
RacePolls == 1
RaceTicks == 1

ReloadPolls == 1
MaxChallenges == 1
MaxLogins == 2
AuthTicks == 1
MaxAntennas == 3
MaxRuns == 2
FetchPolls == 2
TimersFails == 1
TimersBackups == 1
TimersTicks == 1
MaxStops == 1

\* The first startTracking, and one after every stopTracking.
MaxStarts == MaxStops + 1

\* One batch more than a pipeline has slots.
LoadPolls == MAX_CONCURRENT_UPLOADS + 1

StartMs == 2 * MINUTE_MS

Min(a, b) == IF a <= b THEN a ELSE b

RECURSIVE Pow2(_)
Pow2(n) == IF n <= 0 THEN 1 ELSE 2 * Pow2(n - 1)

SeqToSet(s) == { s[i] : i \in 1..Len(s) }

\* A UUID string, by its parts: "enckey-<minute>-<random>", a v4 UUID, or
\* the fixed name the stats backup uses.
Uuid(kind, minute, rnd) == [kind |-> kind, minute |-> minute, rnd |-> rnd]
NoUuid == Uuid("none", 0, 0)
STATS_BACKUP_UUID == Uuid("system-stats-backup", 0, 0)

\* JSON.stringify and JSON.parse of a backup object.
JsonStringify(value) == [json |-> value]
JsonParse(text) == text.json

VARIABLES
  now,                         \* Date.now()
  env,                         \* what the environment may still do (budgets)
  aircraftCache,               \* hex -> AircraftState
  aircraftBatch,
  encryptedAircraftBatch,
  batchUuidMap,                \* batchId -> packageUuid
  uploadQueue,                 \* pipe -> queue of {batch, packageUuid, batchId}
  activeUploads,               \* pipe -> number
  availableSlots,              \* pipe -> the Set of free slots, in insertion order
  uploadProgress,              \* pipe -> slot -> status
  isProcessingQueue,           \* pipe -> flag
  inflight,                    \* pipe -> running executeWithRetry calls
  stats,                       \* poll and aircraft counters
  uploadStats,                 \* pipe -> upload counters
  nildbKeysSaved,
  currentMinuteEncryptionKey,  \* EncryptionService's cached minute key
  keysGenerated,               \* number of minute keys generated so far
  archive,                     \* data items the gateway accepted, with tags
  outOfRangeUpdates,           \* bulk UPDATE ... status='out_of_range' issued
  ledger,                      \* pipe -> batch -> what the batch added to the counters
  batchesCreated,              \* pipe -> number of batches enqueued so far
  encryptions,                 \* every encryptBuffer call: time and key UUID
  sightings,                   \* hex -> history of its observation
  systemStatsRow,              \* the system_stats row of this node
  statsBackups,                \* the stats backups on the archive, oldest first
  restoredRow,                 \* the system_stats row of the node that restores
  restoreOutcome,              \* what the last restoreStatsFromBackup did
  pollLog,                     \* what the last two runs of pollAndProcess saw and did
  statsPersistTimer,           \* the debounce timer of scheduleStatsPersist is set
  statsDirty,
  isRunning,
  starting,                    \* the startTracking calls in progress, by the await they are at
  pollLoops,                   \* the poll closures of startPolling, oldest first
  pollTimer,                   \* the loop whose setTimeout was stored last (0: none)
  pendingRequest,              \* the request fetchAircraftData shares (0: null)
  requests,                    \* the feed requests made so far
  lastETag,                    \* 0: null
  lastModified,                \* 0: null
  cachedAircraftData,
  initialBackupTimers,         \* pending 60 s timeouts of startAutoBackup
  backupInterval,              \* the interval startAutoBackup stored last (0: none)
  backupIntervals,             \* the intervals that are still set
  backupRead,                  \* the row a backupStats call has read and not yet stamped
  statsRows,                   \* the number of rows of the system_stats table
  currentStatsId,              \* the row id loadOrCreateStats captured (0: none)
  calls,                       \* the controller calls still to come
  stopLog,                     \* what has happened since the last stopTracking
  fetchLog,                    \* how the last feed request ended
  aircraftTracks,              \* the aircraft_tracks table: hex -> row
  storedMinuteKeys,            \* EncryptionService's Set of key UUIDs sent, in insertion order
  keyPosts,                    \* the POSTs made to the key-share service, oldest first
  tpm,                         \* tpmBuckets, currentBucketIndex, lastBucketUpdate
  completions,                 \* when each successful upload completed
  challenges,                  \* WalletAuthService's Map: nonce -> challenge
  issuedChallenges,            \* every challenge generated so far, by nonce
  logins,                      \* the validateWalletLogin calls made so far
  urls,                        \* FlightDataService's antenna list, from the config
  mutex,                       \* FlightDataService's Mutex: locked, and the calls waiting
  flightRun,                   \* the fetchAircraftData run that holds the mutex
  flightFetches,               \* the GETs of that run, or of the last one
  flightUploads                \* the archive uploads of that run, or of the last one

vars == << now, env, aircraftCache, aircraftBatch, encryptedAircraftBatch,
           batchUuidMap, uploadQueue, activeUploads, availableSlots,
           uploadProgress, isProcessingQueue, inflight, stats, uploadStats,
           nildbKeysSaved, currentMinuteEncryptionKey, keysGenerated, archive,
           outOfRangeUpdates, ledger, batchesCreated, encryptions, sightings,
           systemStatsRow, statsBackups, restoredRow, restoreOutcome, pollLog,
           statsPersistTimer, statsDirty, isRunning, starting, pollLoops,
           pollTimer, pendingRequest, requests, lastETag, lastModified,
           cachedAircraftData, initialBackupTimers, backupInterval,
           backupIntervals, backupRead, statsRows, currentStatsId, calls,
           stopLog, fetchLog, aircraftTracks, storedMinuteKeys, keyPosts, tpm,
           completions, challenges, issuedChallenges, logins, urls, mutex,
           flightRun, flightFetches, flightUploads >>

\* WalletAuthService and the legacy FlightDataService, which the tracker
\* never calls.
authVars == << challenges, issuedChallenges, logins >>

flightVars == << urls, mutex, flightRun, flightFetches, flightUploads >>

sideVars == << authVars, flightVars >>

\* The state of startTracking, stopTracking, startPolling and fetchAircraftData.
pollingVars == << isRunning, starting, pollLoops, pollTimer, pendingRequest,
                  requests, lastETag, lastModified, cachedAircraftData, calls,
                  fetchLog >>

\* The rows of the system_stats table and the one the tracker writes.
tableVars == << statsRows, currentStatsId >>

\* The backup timers, the backupStats call in progress and the table it reads.
backupVars == << initialBackupTimers, backupInterval, backupIntervals, backupRead,
                 tableVars >>

trackingVars == << pollingVars, backupVars, stopLog, sideVars >>

persistVars == << statsPersistTimer, statsDirty >>

\* The key-share bookkeeping of the EncryptionService, and the TPM meter.
keyVars == << storedMinuteKeys, keyPosts >>

tpmVars == << tpm, completions >>

\* ------------------------------------------------------- EncryptionService
MasterKey == "data.encryption_key"

NoKey == [valid |-> FALSE, keyUuid |-> NoUuid, timestamp |-> 0]

\* deriveKeyFromUuid: HKDF-SHA256(ikm = masterKey, salt = uuid, info fixed).
\* A key derivation is a function of (master key, salt) and nothing else.
DeriveKeyFromUuid(uuid) == [ikm |-> MasterKey, salt |-> uuid]

Sha256(data) == [sha256 |-> data]

\* AES-256-GCM: the package is IV || AuthTag || Ciphertext; the tag binds the
\* ciphertext to the key, so only the same key opens it.
AesGcmEncrypt(key, iv, plaintext) == [iv |-> iv, sealedWith |-> key, body |-> plaintext]
AesGcmDecrypt(key, package) ==
  IF package.sealedWith = key
  THEN [ok |-> TRUE, data |-> package.body]
  ELSE [ok |-> FALSE, data |-> package.body]

\* The mutant: the cached key is kept whatever the minute.
NeedsNewKey_NeverRotates(key, t) == ~key.valid
\* getOrGenerateMinuteEncryptionKey, the test of its if.
NeedsNewKey(key, t) ==
  ~key.valid \/ (key.timestamp \div MINUTE_MS) # (t \div MINUTE_MS)

\* getOrGenerateMinuteEncryptionKey on E = [key, generated, log].
GetOrGenerateMinuteEncryptionKey(E, t) ==
  IF NeedsNewKey(E.key, t)
  THEN [E EXCEPT !.key = [valid |-> TRUE,
                          keyUuid |-> Uuid("enckey", t \div MINUTE_MS, E.generated + 1),
                          timestamp |-> t],
                 !.generated = E.generated + 1]
  ELSE E

\* encryptBuffer: "Always use minute-based encryption key for actual encryption".
EncryptionKeyUuidFor(E, packageUuid) == E.key.keyUuid

\* encryptBuffer(plaintextData, packageUuid) at time t with the random IV iv.
\* Returns the service state after the call and the call's result.
EncryptBuffer(E, plaintextData, packageUuid, t, iv) ==
  LET E1 == GetOrGenerateMinuteEncryptionKey(E, t)
      keyUuid == EncryptionKeyUuidFor(E1, packageUuid)
      key == DeriveKeyFromUuid(keyUuid)
      E2 == [E1 EXCEPT !.log = @ \cup {[at |-> t, keyUuid |-> keyUuid]}]
  IN [service |-> E2,
      result |-> [encryptedBuffer |-> AesGcmEncrypt(key, iv, plaintextData),
                  dataHash |-> Sha256(plaintextData),
                  encryptionKey |-> key,
                  packageUuid |-> packageUuid,
                  encryptionKeyUuid |-> keyUuid]]

\* decryptFile(encryptedFilePath, packageUuid): derives the key from the UUID.
DecryptFile(package, packageUuid) ==
  AesGcmDecrypt(DeriveKeyFromUuid(packageUuid), package)

\* ------------------------------------------------------------ the pipelines
Slots == 1..MAX_CONCURRENT_UPLOADS
InitialSlots == [i \in Slots |-> i]

NoIv == [batch |-> 0, draw |-> 0]
Iv(serial, attempt) == [batch |-> serial, draw |-> attempt]

\* Buffer.from('dummy'), the buffer uploadBatchParquet encrypts for the key UUID.
DummyBuffer == [parquet |-> << >>]

\* What an attempt hands to turbo.upload.
NothingSent == [iv |-> NoIv, keyUuid |-> NoUuid, packageUuid |-> NoUuid,
                dataHash |-> Sha256(DummyBuffer), prepared |-> FALSE]

NoBatchId == [snapshotTime |-> 0, hex |-> "", ordinal |-> 0]

\* What one batch has added to the counters, and what happened to it.
NoLedger == [attempted |-> 0, succeeded |-> 0, failed |-> 0, retries |-> 0,
             attempts |-> 0, uploads |-> 0, failures |-> 0, upsertFailures |-> 0,
             waits |-> << >>, released |-> FALSE,
             packageUuid |-> NoUuid, batchId |-> NoBatchId]

\* The parquet file of a batch: the encoder is a function of the batch.
ParquetOf(batch) == [parquet |-> batch]

\* uploadBatchParquet / uploadBatchParquetEncrypted: "Validate inputs".
ValidInputs(batch) == Len(batch) > 0 /\ batch[1].snapshotTime > 0

\* The mutant: every attempt counts as an upload attempted.
CountsAsAttempted_EveryAttempt(attempt) == TRUE

\* executeWithRetry: "Only increment totalUploadsAttempted on the FIRST attempt".
CountsAsAttempted(attempt) == attempt = 1

\* The mutant: one attempt too many.
AttemptsExhausted_OffByOne(attempt, maxAttempts) == attempt > maxAttempts

\* executeWithRetry: if (attempt >= maxAttempts) the batch is given up.
AttemptsExhausted(attempt, maxAttempts) == attempt >= maxAttempts

\* The mutant: a linear backoff.
BackoffMs_Linear(attempt) == Min(BACKOFF_BASE_MS * attempt, BACKOFF_CAP_MS)

\* executeWithRetry: Math.min(1000 * Math.pow(2, attempt - 1), 16000).
BackoffMs(attempt) == Min(BACKOFF_BASE_MS * Pow2(attempt - 1), BACKOFF_CAP_MS)

\* The mutant: the loop looks at the queue alone.
MayDispatch_QueueOnly(queue, active, slots) == Len(queue) > 0

\* processQueue / processEncryptedQueue: the while condition.
MayDispatch(queue, active, slots) ==
  Len(queue) > 0 /\ active < MAX_CONCURRENT_UPLOADS /\ Len(slots) > 0

\* The sequence s without its element x (Set.delete keeps the others' order).
Without(s, x) == SelectSeq(s, LAMBDA y : y # x)

\* Set.add: appends unless present.
SetAdd(s, x) == IF x \in SeqToSet(s) THEN s ELSE Append(s, x)

\* The bookkeeping of one batch in the ledger.
Booked(L, serial, field, n) ==
  [L EXCEPT ![serial] = [@ EXCEPT ![field] = @ + n]]

\* The synchronous head of executeWithRetry(uploadFn, .., attempt) for the
\* running call r of pipeline p, up to the first await inside uploadFn.
\* W is the pipeline's state with the EncryptionService's.
StartAttempt(p, W, r, t) ==
  LET serial == r.item.serial
      counted == IF CountsAsAttempted(r.attempt) THEN 1 ELSE 0
      W1 == [W EXCEPT !.ustats.attempted = @ + counted,
                      !.ledger = Booked(Booked(@, serial, "attempted", counted),
                                        serial, "attempts", 1),
                      !.progress = IF r.slot \in DOMAIN @
                                   THEN [@ EXCEPT ![r.slot] = "uploading"] ELSE @]
      others == { x \in W.inflight : x.slot # r.slot \/ x.item.serial # serial }
  IN IF p = "clear"
     THEN \* uploadBatch -> uploadBatchParquet: the dummy encryptBuffer call
          \* that fetches the Encryption-Key-UUID tag runs before validation.
          LET e == EncryptBuffer(W1.enc, DummyBuffer, r.item.packageUuid, t,
                                 Iv(serial, r.attempt))
              sent == [iv |-> NoIv, keyUuid |-> e.result.encryptionKeyUuid,
                       packageUuid |-> r.item.packageUuid,
                       dataHash |-> e.result.dataHash, prepared |-> TRUE]
          IN [W1 EXCEPT !.enc = e.service,
                        !.inflight = others \cup
                          {[r EXCEPT !.phase = "uploading", !.sent = sent,
                                     !.first = IF r.attempt = 1 THEN sent ELSE @]}]
     ELSE \* uploadEncryptedBatch -> uploadBatchParquetEncrypted awaits
          \* prepareEncryptedParquetBuffer, which awaits the parquet writer.
          [W1 EXCEPT !.inflight = others \cup
                          {[r EXCEPT !.phase = "preparing", !.sent = NothingSent]}]

\* The mutant: the newest item is taken.
Shift_Newest(queue) ==
  [item |-> queue[Len(queue)], rest |-> SubSeq(queue, 1, Len(queue) - 1)]

\* this.uploadQueue.shift(): the oldest item, and the queue without it.
Shift(queue) == [item |-> Head(queue), rest |-> Tail(queue)]

\* One turn of the while loop of processQueue / processEncryptedQueue.
DispatchOne(p, W, t) ==
  LET queueItem == Shift(W.queue).item
      \* Array.from(this.availableSlots)[0]: undefined (0) on an empty set
      slotId == IF Len(W.slots) > 0 THEN Head(W.slots) ELSE 0
      W1 == [W EXCEPT !.queue = Shift(@).rest,
                      !.slots = Without(@, slotId),
                      !.active = @ + 1,
                      !.progress = [s \in DOMAIN @ \cup {slotId} |->
                                      IF s = slotId THEN "uploading" ELSE @[s]]]
      r == [slot |-> slotId, item |-> queueItem, attempt |-> 1,
            phase |-> "starting", sent |-> NothingSent, first |-> NothingSent,
            backoffMs |-> 0, existingMap |-> << >>, trackNow |-> 0]
  IN StartAttempt(p, W1, r, t)

RECURSIVE DispatchLoop(_, _, _)
DispatchLoop(p, W, t) ==
  IF MayDispatch(W.queue, W.active, W.slots)
  THEN DispatchLoop(p, DispatchOne(p, W, t), t)
  ELSE W

\* processQueue / processEncryptedQueue: guarded by the processor flag, which
\* is set and cleared inside the same synchronous block.
ProcessQueue(p, W, t) ==
  IF W.processing THEN W ELSE DispatchLoop(p, W, t)

\* The mutant: the slot is not given back.
ReleasedSlots_Kept(slots, slotId) == slots

\* .finally of processQueue: this.availableSlots.add(slotId).
ReleasedSlots(slots, slotId) == SetAdd(slots, slotId)

\* The .finally callback of processQueue / processEncryptedQueue for r.  It is
\* chained on the promise of executeWithRetry and runs in the microtasks that
\* follow the call's return, before any timer or I/O callback.
Finally(p, W, r, t) ==
  LET W1 == [W EXCEPT !.active = @ - 1,
                      !.progress = [s \in DOMAIN @ \ {r.slot} |-> @[s]],
                      !.slots = ReleasedSlots(@, r.slot),
                      !.inflight = @ \ {r},
                      !.ledger = [@ EXCEPT ![r.item.serial].released = TRUE]]
  IN ProcessQueue(p, W1, t)

\* The catch block of executeWithRetry for the running call r: the batch is
\* given up (and the call returns, so .finally runs) or a backoff timer is set.
AttemptFailed(p, W, r, t) ==
  LET serial == r.item.serial
  IN IF AttemptsExhausted(r.attempt, MAX_ATTEMPTS)
     THEN Finally(p,
            [W EXCEPT !.ustats.failed = @ + 1,
                      !.ledger = Booked(@, serial, "failed", 1),
                      !.progress = IF r.slot \in DOMAIN @
                                   THEN [@ EXCEPT ![r.slot] = "failed"] ELSE @],
            r, t)
     ELSE [W EXCEPT !.ustats.retries = @ + 1,
                    !.ledger = [Booked(@, serial, "retries", 1) EXCEPT
                                  ![serial].waits = Append(@, BackoffMs(r.attempt))],
                    !.progress = IF r.slot \in DOMAIN @
                                 THEN [@ EXCEPT ![r.slot] = "retrying"] ELSE @,
                    !.inflight = (@ \ {r}) \cup
                      {[r EXCEPT !.phase = "backoff",
                                 !.backoffMs = BackoffMs(r.attempt)]}]

\* What follows "await uploadFn()" in executeWithRetry when it returned; the
\* call returns and .finally runs.
AttemptSucceeded(p, W, r, t) ==
  Finally(p,
    [W EXCEPT !.ustats.succeeded = @ + 1,
              !.ledger = Booked(@, r.item.serial, "succeeded", 1),
              !.progress = IF r.slot \in DOMAIN @
                           THEN [@ EXCEPT ![r.slot] = "completed"] ELSE @],
    r, t)

\* -------------------------------------------------------- change detection
NoState == [present |-> FALSE, hash |-> 0, lastSeen |-> 0, lastUploaded |-> 0, data |-> 0]

\* calculateAircraftHash: xxh64 over the ten fingerprinted fields, which the
\* observation carries as fp; the other fields (seen, rssi, ...) as rest.
CalculateAircraftHash(aircraft) == aircraft.fp

\* The mutant: any time away counts as a reappearance.
IsReappearance_NoDwell(timeSinceLastSeen) == timeSinceLastSeen > 0

\* pollAndProcess: timeSinceLastSeen > this.REAPPEAR_THRESHOLD_MS.
IsReappearance(timeSinceLastSeen) == timeSinceLastSeen > REAPPEAR_THRESHOLD_MS

\* The mutant: no entry is ever old enough.
IsOutOfRange_Never(timeSinceLastSeen) == FALSE

\* markMissingAircraftAsOutOfRange: the same test, for a hex not in the poll.
IsOutOfRange(timeSinceLastSeen) == timeSinceLastSeen > REAPPEAR_THRESHOLD_MS

\* The mutant: the entry keeps no hash.
FreshState_NoHash(aircraft, hash, t) ==
  [present |-> TRUE, hash |-> 0, lastSeen |-> t, lastUploaded |-> t, data |-> aircraft.fp]

\* handleNewAircraft / handleReappearedAircraft / handleUpdatedAircraft: the
\* cache entry they set.
FreshState(aircraft, hash, t) ==
  [present |-> TRUE, hash |-> hash, lastSeen |-> t, lastUploaded |-> t, data |-> aircraft.fp]

\* addToBatch: the entry pushed on both batch buffers.
BatchEntry(aircraft, snapshotTime) ==
  [aircraft |-> aircraft, snapshotTime |-> snapshotTime, hex |-> aircraft.hex]

\* The mutant: no observation counts as seen before.
IsDuplicate_Never(seenInThisPoll, hex) == FALSE

\* pollAndProcess: seenInThisPoll.has(hex).
IsDuplicate(seenInThisPoll, hex) == hex \in seenInThisPoll

\* One turn of the for loop of pollAndProcess, for the observation aircraft.
\* C carries the cache, the two batch buffers, seenInThisPoll, the counters
\* and the events.
ClassifyOne(aircraft, snapshotTime, t, C) ==
  LET hex == aircraft.hex
      cached == C.cache[hex]
      currentHash == CalculateAircraftHash(aircraft)
      entry == BatchEntry(aircraft, snapshotTime)
      seen == [C EXCEPT !.seenInThisPoll = @ \cup {hex}]
      batched == [seen EXCEPT !.batch = Append(@, entry),
                              !.encryptedBatch = Append(@, entry)]
  IN IF IsDuplicate(C.seenInThisPoll, hex)
     THEN C
     ELSE IF ~cached.present
     THEN [batched EXCEPT !.cache[hex] = FreshState(aircraft, currentHash, t),
                          !.totalNewAircraft = @ + 1,
                          !.events[hex] = "NEW"]
     ELSE IF IsReappearance(t - cached.lastSeen)
     THEN [batched EXCEPT !.cache[hex] = FreshState(aircraft, currentHash, t),
                          !.totalReappeared = @ + 1,
                          !.events[hex] = "REAPPEARED"]
     ELSE IF currentHash # cached.hash
     THEN [batched EXCEPT !.cache[hex] = FreshState(aircraft, currentHash, t),
                          !.totalUpdates = @ + 1,
                          !.events[hex] = "UPDATED"]
     ELSE [seen EXCEPT !.cache[hex].lastSeen = t,
                       !.events[hex] = "UNCHANGED"]

\* The for loop of pollAndProcess over the observations lo..hi, in their
\* order: the turns lo..mid run to their end before the turn mid + 1 starts
\* (every turn puts its hex in seenInThisPoll, so the test only orders the
\* evaluation).
RECURSIVE ClassifyRange(_, _, _, _, _, _)
ClassifyRange(aircraftList, lo, hi, snapshotTime, t, C) ==
  IF lo > hi THEN C
  ELSE IF lo = hi THEN ClassifyOne(aircraftList[lo], snapshotTime, t, C)
  ELSE LET mid == (lo + hi) \div 2
           done == ClassifyRange(aircraftList, lo, mid, snapshotTime, t, C)
       IN IF done.seenInThisPoll = {} THEN done
          ELSE ClassifyRange(aircraftList, mid + 1, hi, snapshotTime, t, done)

\* The for loop of pollAndProcess from observation i on.
ClassifyFrom(aircraftList, i, snapshotTime, t, C) ==
  ClassifyRange(aircraftList, i, Len(aircraftList), snapshotTime, t, C)

\* markMissingAircraftAsOutOfRange: the hexes it deletes from the cache and
\* names in the bulk update.
OutOfRangeHexes(cache, currentHexSet, t) ==
  { hex \in DOMAIN cache :
      /\ cache[hex].present
      /\ hex \notin currentHexSet
      /\ IsOutOfRange(t - cache[hex].lastSeen) }

\* ------------------------------------------------------------- the batcher
\* The mutant: the last, shorter chunk is left out.
RECURSIVE Chunks_FullOnly(_)
Chunks_FullOnly(buffer) ==
  IF Len(buffer) < MAX_AIRCRAFT_PER_BATCH THEN << >>
  ELSE << SubSeq(buffer, 1, MAX_AIRCRAFT_PER_BATCH) >>
       \o Chunks_FullOnly(SubSeq(buffer, MAX_AIRCRAFT_PER_BATCH + 1, Len(buffer)))

\* The chunks of processBatch: slice(i, i + MAX_AIRCRAFT_PER_BATCH).
RECURSIVE Chunks(_)
Chunks(buffer) ==
  IF Len(buffer) = 0 THEN << >>
  ELSE << SubSeq(buffer, 1, Min(Len(buffer), MAX_AIRCRAFT_PER_BATCH)) >>
       \o Chunks(SubSeq(buffer, Min(Len(buffer), MAX_AIRCRAFT_PER_BATCH) + 1, Len(buffer)))

\* `${batch[0].snapshotTime}-${batch[0].hex}-${i}`; i counts from 0.
BatchId(batch, i) == [snapshotTime |-> batch[1].snapshotTime, hex |-> batch[1].hex, ordinal |-> i - 1]

\* The mutant: the encrypted pipeline draws its own UUID.
LookupPackageUuid_AlwaysFresh(map, batchId, fresh) == fresh

\* processEncryptedBatch: this.batchUuidMap.get(batchId) || uuidv4().
LookupPackageUuid(map, batchId, fresh) ==
  IF batchId \in DOMAIN map THEN map[batchId] ELSE fresh

\* Map.set.
MapSet(map, key, value) ==
  [k \in DOMAIN map \cup {key} |-> IF k = key THEN value ELSE map[k]]

\* processBatch from chunk i on (before its final processQueue call).
\* B carries the pipeline state W, the batchUuidMap and the batch count.
RECURSIVE EnqueueClearFrom(_, _, _)
EnqueueClearFrom(batches, i, B) ==
  IF i > Len(batches) THEN B
  ELSE
    LET batch == batches[i]
        serial == B.created + 1
        packageUuid == Uuid("uuidv4", 0, serial)
        batchId == BatchId(batch, i)
        item == [batch |-> batch, packageUuid |-> packageUuid,
                 batchId |-> batchId, serial |-> serial]
    IN EnqueueClearFrom(batches, i + 1,
         [B EXCEPT !.map = MapSet(@, batchId, packageUuid),
                   !.created = serial,
                   !.W.queue = Append(@, item),
                   !.W.ledger = MapSet(@, serial,
                                  [NoLedger EXCEPT !.packageUuid = packageUuid,
                                                   !.batchId = batchId])])

\* processEncryptedBatch from chunk i on.
RECURSIVE EnqueueEncryptedFrom(_, _, _)
EnqueueEncryptedFrom(batches, i, B) ==
  IF i > Len(batches) THEN B
  ELSE
    LET batch == batches[i]
        serial == B.created + 1
        batchId == BatchId(batch, i)
        packageUuid == LookupPackageUuid(B.map, batchId, Uuid("uuidv4-encrypted", 0, serial))
        item == [batch |-> batch, packageUuid |-> packageUuid,
                 batchId |-> batchId, serial |-> serial]
    IN EnqueueEncryptedFrom(batches, i + 1,
         [B EXCEPT !.created = serial,
                   !.W.queue = Append(@, item),
                   !.W.ledger = MapSet(@, serial,
                                  [NoLedger EXCEPT !.packageUuid = packageUuid,
                                                   !.batchId = batchId])])

\* ----------------------------------------------------------- the track store
NoTrack == [exists |-> FALSE, first_seen |-> 0, last_seen |-> 0, last_uploaded |-> 0,
            upload_count |-> 0, total_updates |-> 0, status |-> "none"]

\* batch.map(item => item.hex).
HexList(batch) == { batch[i].hex : i \in 1..Len(batch) }

\* aircraftTrackRepo.find({ where: { hex: In(hexList) } }), as existingMap.get
\* reads it: the row of every hex of the batch, if there is one.
FindTracks(tracks, batch) ==
  [h \in HexList(batch) |-> IF h \in DOMAIN tracks THEN tracks[h] ELSE NoTrack]

\* uploadBatch / uploadEncryptedBatch: "Update existing aircraft".
UpdatedTrack(existing, t) ==
  [existing EXCEPT !.last_seen = t, !.last_uploaded = t,
                   !.upload_count = @ + 1, !.total_updates = @ + 1]

\* uploadBatch / uploadEncryptedBatch: "New aircraft - prepare for bulk insert".
InsertedTrack(t) ==
  [exists |-> TRUE, first_seen |-> t, last_seen |-> t, last_uploaded |-> t,
   upload_count |-> 1, total_updates |-> 0, status |-> "active"]

\* The entity uploadBatch puts in toUpdate or toInsert for a hex whose lookup
\* gave `existing`.
TrackToSave(existing, t) ==
  IF existing.exists THEN UpdatedTrack(existing, t) ELSE InsertedTrack(t)

\* aircraftTrackRepo.save(allTracks): hex is the primary column, so every
\* entity replaces the row of its hex or becomes it.
SaveTracks(tracks, found, t) ==
  [h \in DOMAIN tracks \cup DOMAIN found |->
     IF h \in DOMAIN found THEN TrackToSave(found[h], t) ELSE tracks[h]]

\* markMissingAircraftAsOutOfRange: update({ hex: In(outOfRangeHexes) },
\* { status: 'out_of_range', last_seen: now }).
MarkOutOfRange(tracks, hexes, t) ==
  [h \in DOMAIN tracks |->
     IF h \in hexes
     THEN [tracks[h] EXCEPT !.status = "out_of_range", !.last_seen = t]
     ELSE tracks[h]]

\* ------------------------------------------------------- the key-share store
\* storeKeyInNilDB up to its await: a UUID in storedMinuteKeys is skipped,
\* any other is POSTed to the key-share service.  A POST that cannot reach
\* the service rejects, the catch returns false and nothing is changed: such
\* a POST is not kept.
StoreKeyInNilDB(stored, posts, keyUuid, reachable) ==
  IF keyUuid \in SeqToSet(stored) \/ ~reachable THEN posts
  ELSE Append(posts, [keyUuid |-> keyUuid, state |-> "flying"])

\* Array.from(this.storedMinuteKeys).slice(-5) when the set holds more than 5.
LastKeys(stored) ==
  IF Len(stored) > STORED_KEYS_KEPT
  THEN SubSeq(stored, Len(stored) - STORED_KEYS_KEPT + 1, Len(stored))
  ELSE stored

\* storeKeyInNilDB after a response that is ok: the UUID is added to the set
\* and the set is cut to its last five.
KeyStored(stored, keyUuid) == LastKeys(SetAdd(stored, keyUuid))

\* ------------------------------------------------------------ the TPM meter
Buckets == 0..(TOTAL_BUCKETS - 1)

NoTpm == [tpmBuckets |-> [b \in Buckets |-> 0], currentBucketIndex |-> 0,
          lastBucketUpdate |-> 0]

\* updateTpmEMA: "Rotate and clear old buckets", n turns of the for loop.
RECURSIVE RotateBuckets(_, _)
RotateBuckets(T, n) ==
  IF n <= 0 THEN T
  ELSE LET index == (T.currentBucketIndex + 1) % TOTAL_BUCKETS
       IN RotateBuckets([T EXCEPT !.currentBucketIndex = index,
                                  !.tpmBuckets[index] = 0], n - 1)

\* updateTpmEMA at time t.
UpdateTpmEMA(T, t) ==
  IF T.lastBucketUpdate = 0
  THEN [T EXCEPT !.lastBucketUpdate = t, !.tpmBuckets[T.currentBucketIndex] = 1]
  ELSE LET elapsed == t - T.lastBucketUpdate
           rotated == IF elapsed >= BUCKET_SIZE_MS
                      THEN [RotateBuckets(T, Min(elapsed \div BUCKET_SIZE_MS, TOTAL_BUCKETS))
                              EXCEPT !.lastBucketUpdate = t]
                      ELSE T
       IN [rotated EXCEPT !.tpmBuckets[rotated.currentBucketIndex] = @ + 1]

RECURSIVE SumBuckets(_, _)
SumBuckets(buckets, b) ==
  IF b < 0 THEN 0 ELSE buckets[b] + SumBuckets(buckets, b - 1)

\* getCurrentTpm: the sum of the buckets (0 before the first upload).
GetCurrentTpm(T) ==
  IF T.lastBucketUpdate = 0 THEN 0 ELSE SumBuckets(T.tpmBuckets, TOTAL_BUCKETS - 1)

\* --------------------------------------------------------- the environment
\* The hex of the i-th aircraft of a large response.
Hex(i) == ToString(i)

\* aircraft.hex of an observation whose hex is missing or empty.
MissingHex == ""

AllHexes == {"a", "b", MissingHex} \cup { Hex(i) : i \in 1..MaxAircraft }

Observation(hex, fp) == [hex |-> hex, fp |-> fp]

\* A parsed response {now, aircraft}; stamped says that now is a unix time.
Data(aircraftList) == [kind |-> "data", aircraft |-> aircraftList, stamped |-> TRUE]

\* A response whose now is missing or 0.
Unstamped(aircraftList) == [kind |-> "data", aircraft |-> aircraftList, stamped |-> FALSE]

\* aircraftData.now: the feed stamps a response with its clock, in seconds.
FeedNow(t) == t \div 1000

\* aircraftData.now as pollAndProcess hands it to the handlers.
SnapshotTimeOf(response, t) == IF response.stamped THEN FeedNow(t) ELSE 0

\* fetchAircraftData returned null or threw: the poll skips the tick.
NoData == [kind |-> "nodata", aircraft |-> << >>, stamped |-> FALSE]

\* No poll has run yet.
NoResponse == [kind |-> "none", aircraft |-> << >>, stamped |-> FALSE]

\* n aircraft, all with the fingerprint fp.
Fleet(n, fp) == [i \in 1..n |-> Observation(Hex(i), fp)]

\* What fetchAircraftData may give a poll, by profile.
\* One aircraft whose fingerprinted fields change with every poll.
OneHexFeed(polls) == { Data(<< Observation("a", polls) >>) }
TwoHexFeed ==
  { Data(<< >>), NoData }
  \cup { Data(<< Observation("a", fp) >>) : fp \in {1, 2} }
  \cup { Data(<< Observation("a", 1), Observation("b", 1) >>) }

\* Responses of 30, 31, 45 and more than 60 aircraft, changed with every poll.
BulkFeed(polls) ==
  { Data(Fleet(n, polls)) : n \in {MAX_AIRCRAFT_PER_BATCH, MAX_AIRCRAFT_PER_BATCH + 1,
                                    45, MaxAircraft} }

\* One aircraft in a response without a valid now.
InvalidFeed(polls) == { Unstamped(<< Observation("a", polls) >>) }

\* Responses that list a hex twice, and one with an observation without hex.
DirtyFeed ==
  { Data(<< Observation("a", 1), Observation("a", 2) >>),
    Data(<< Observation("a", 2), Observation("b", 1), Observation("a", 1) >>),
    Data(<< Observation(MissingHex, 1), Observation("a", 1) >>) }

\* One aircraft that changes with every poll in which it is seen, and is
\* away in every other poll.
TracksFeed(polls) ==
  IF polls % 2 = 0 THEN { Data(<< >>) } ELSE { Data(<< Observation("a", polls) >>) }

Feed(profile, polls) ==
  CASE profile = "classify" -> TwoHexFeed
    [] profile = "tracks" -> TracksFeed(polls)
    [] profile = "dirty" -> DirtyFeed
    [] profile = "bulk" -> BulkFeed(polls)
    [] profile = "invalid" -> InvalidFeed(polls)
    [] OTHER -> OneHexFeed(polls)

\* How far the clock may move in one step, by profile.
ClockSteps(profile) ==
  CASE profile = "classify" -> {POLL_INTERVAL_MS, REAPPEAR_THRESHOLD_MS}
    [] profile = "keys" -> {MINUTE_MS - 100, 100}
    [] profile = "tracks" -> {MINUTE_MS, REAPPEAR_THRESHOLD_MS}
    [] profile = "auth" -> {5 * MINUTE_MS, 6 * MINUTE_MS}
    [] OTHER -> {MINUTE_MS}

\* Whether the nildb-keystore service can be reached, by profile.
KeyStoreUp(profile) == profile = "keystore"

\* A profile bounds what the environment does within the horizon: the polls
\* the feed answers, the attempts the network and the database fail, the
\* clock steps, the stats backups taken, and the pipelines whose I/O
\* completes at all.
Profile(name, answered, polls, fails, dbFails, ticks, backups) ==
  [profile |-> name, answered |-> answered, polls |-> polls, fails |-> fails,
   dbFails |-> dbFails, ticks |-> ticks, backups |-> backups,
   persists |-> backups, restores |-> backups]

Profiles ==
  { Profile("load", {"clear"}, LoadPolls, LoadFails, 0, 0, 0),
    Profile("load", {"enc"}, LoadPolls, LoadFails, 0, 0, 0),
    Profile("retry", {"clear"}, RetryPolls, RetryFails, RetryDbFails, 1, 0),
    Profile("retry", {"enc"}, RetryPolls, RetryFails, RetryDbFails, 1, 0),
    Profile("pair", Pipes, PairPolls, PairFails, 0, 0, 0),
    Profile("classify", {}, ClassifyPolls, 0, 0, ClassifyTicks, 0),
    Profile("keys", {}, KeysPolls, 0, 0, KeysTicks, 0),
    Profile("backup", {}, BackupPolls, 0, 0, 1, BackupRuns),
    Profile("bulk", {}, BulkPolls, 0, 0, 0, 0),
    Profile("invalid", {"clear"}, InvalidPolls, 0, 0, 0, 0),
    Profile("invalid", {"enc"}, InvalidPolls, 0, 0, 0, 0),
    Profile("dirty", {}, DirtyPolls, 0, 0, 0, 0) }

\* ------------------------------------------------------- StatsBackupService
NoCounters ==
  [total_uploads_attempted |-> 0, total_uploads_succeeded |-> 0,
   total_uploads_failed |-> 0, total_retries |-> 0,
   encrypted_uploads_attempted |-> 0, encrypted_uploads_succeeded |-> 0,
   encrypted_uploads_failed |-> 0, encrypted_retries |-> 0,
   nildb_keys_saved |-> 0, total_new_aircraft |-> 0, total_updates |-> 0,
   total_reappeared |-> 0, total_poll_cycles |-> 0]

NoRow == [exists |-> FALSE, counters |-> NoCounters, system_start_time |-> 0,
          updated_at |-> 0]

\* loadOrCreateStats on an empty table: the row it saves.
NewStatsRow(t) == [exists |-> TRUE, counters |-> NoCounters, system_start_time |-> t,
                   updated_at |-> t]

\* persistStats: the columns it writes, from the counters in memory.
PersistedCounters(st, ust, keysSaved) ==
  [total_uploads_attempted |-> ust["clear"].attempted,
   total_uploads_succeeded |-> ust["clear"].succeeded,
   total_uploads_failed |-> ust["clear"].failed,
   total_retries |-> ust["clear"].retries,
   encrypted_uploads_attempted |-> ust["enc"].attempted,
   encrypted_uploads_succeeded |-> ust["enc"].succeeded,
   encrypted_uploads_failed |-> ust["enc"].failed,
   encrypted_retries |-> ust["enc"].retries,
   nildb_keys_saved |-> keysSaved,
   total_new_aircraft |-> st.totalNewAircraft,
   total_updates |-> st.totalUpdates,
   total_reappeared |-> st.totalReappeared,
   total_poll_cycles |-> st.totalPollCycles]

\* backupStats: the backup object it builds from the row at time t.
BackupObject(row, t, backupId) ==
  [timestamp |-> t,
   stats |-> [system_start_time |-> row.system_start_time, counters |-> row.counters],
   backupId |-> backupId]

\* encryptFile(inputFilePath, packageUuid): encryptBuffer on the file's bytes.
EncryptFile(E, fileData, packageUuid, t, iv) ==
  EncryptBuffer(E, fileData, packageUuid, t, iv)

NoBackup == [found |-> FALSE, timestamp |-> 0,
             stats |-> [system_start_time |-> 0, counters |-> NoCounters],
             backupId |-> 0]

\* queryLatestBackup: the newest backup transaction, downloaded, decrypted
\* with the fixed UUID and parsed; null when there is none or when any step
\* throws (the catch returns null).
QueryLatestBackup(backups) ==
  IF Len(backups) = 0 THEN NoBackup
  ELSE LET decrypted == DecryptFile(backups[Len(backups)].package, STATS_BACKUP_UUID)
       IN IF decrypted.ok
          THEN LET backup == JsonParse(decrypted.data)
               IN [found |-> TRUE, timestamp |-> backup.timestamp,
                   stats |-> backup.stats, backupId |-> backup.backupId]
          ELSE NoBackup

\* The mutant: the row is kept only when it is strictly newer.
KeepsDatabaseStats_OnlyNewer(dbTimestamp, backupTimestamp) == dbTimestamp > backupTimestamp

\* restoreStatsFromBackup: "Compare timestamps - use the most up-to-date stats".
KeepsDatabaseStats(dbTimestamp, backupTimestamp) == dbTimestamp >= backupTimestamp

\* restoreStatsFromBackup on a node whose table holds `existing`, at time t:
\* the row afterwards and the value returned.
RestoreStatsFromBackup(backups, existing, t) ==
  LET backup == QueryLatestBackup(backups)
  IN IF ~backup.found THEN [row |-> existing, restored |-> FALSE]
     ELSE IF existing.exists
     THEN IF KeepsDatabaseStats(existing.updated_at, backup.timestamp)
          THEN [row |-> existing, restored |-> FALSE]
          ELSE [row |-> [existing EXCEPT !.counters = backup.stats.counters,
                                         !.updated_at = t],
                restored |-> TRUE]
     ELSE [row |-> [exists |-> TRUE, counters |-> backup.stats.counters,
                    system_start_time |-> t, updated_at |-> t],
           restored |-> TRUE]

\* ------------------------------------------------------------------- state
\* What a run of pollAndProcess saw and did, and the run before it.
NoPoll ==
  [response |-> NoResponse, at |-> 0,
   previous |-> [response |-> NoResponse, at |-> 0],
   cacheBefore |-> [h \in AllHexes |-> NoState],
   events |-> [h \in AllHexes |-> "ABSENT"],
   buffered |-> << >>, bufferedEncrypted |-> << >>,
   enqueued |-> [p \in Pipes |-> << >>],
   outOfRange |-> {}, counted |-> 0,
   countersTouched |-> FALSE, uploadsTouched |-> FALSE]

NoSighting == [lastObserved |-> -1, missedLong |-> FALSE, markedOutOfRange |-> FALSE,
               returnedAs |-> "none", returnedAfterMark |-> FALSE]

\* restore and tracks count the calls at that await; load holds what the
\* findOne of each call at loadOrCreateStats returns, in the order issued.
NoStarts == [restore |-> 0, load |-> << >>, tracks |-> 0]

NoCalls == [starts |-> 0, stops |-> 0]

\* Nothing has been stopped yet.
NoStop == [stopped |-> FALSE, queued |-> [p \in Pipes |-> {}], fired |-> {}]

NoFetch == [outcome |-> "none", request |-> 0]

NoRun == [run |-> 0, index |-> 0, phase |-> "idle", waited |-> FALSE]

\* The fields of the services as their constructors leave them, on a node
\* whose system_stats table holds `row` (or nothing, for NoRow) and whose
\* config lists `antennas`.
Services(row, antennas) ==
  /\ now = StartMs
  /\ challenges = << >>
  /\ issuedChallenges = << >>
  /\ logins = << >>
  /\ urls = antennas
  /\ mutex = [locked |-> FALSE, waiters |-> 0]
  /\ flightRun = NoRun
  /\ flightFetches = << >>
  /\ flightUploads = << >>
  /\ aircraftCache = [h \in AllHexes |-> NoState]
  /\ aircraftBatch = << >>
  /\ encryptedAircraftBatch = << >>
  /\ batchUuidMap = << >>
  /\ uploadQueue = [p \in Pipes |-> << >>]
  /\ activeUploads = [p \in Pipes |-> 0]
  /\ availableSlots = [p \in Pipes |-> InitialSlots]
  /\ uploadProgress = [p \in Pipes |-> << >>]
  /\ isProcessingQueue = [p \in Pipes |-> FALSE]
  /\ inflight = [p \in Pipes |-> {}]
  /\ stats = [totalNewAircraft |-> 0, totalUpdates |-> 0, totalReappeared |-> 0,
              totalPollCycles |-> 0]
  /\ uploadStats = [p \in Pipes |->
                      [attempted |-> 0, succeeded |-> 0, failed |-> 0, retries |-> 0]]
  /\ nildbKeysSaved = 0
  /\ currentMinuteEncryptionKey = NoKey
  /\ keysGenerated = 0
  /\ archive = {}
  /\ outOfRangeUpdates = {}
  /\ ledger = [p \in Pipes |-> << >>]
  /\ batchesCreated = [p \in Pipes |-> 0]
  /\ encryptions = {}
  /\ sightings = [h \in AllHexes |-> NoSighting]
  /\ systemStatsRow = row
  /\ statsRows = (IF row.exists THEN 1 ELSE 0)
  /\ backupRead = NoRow
  /\ statsBackups = << >>
  /\ restoredRow = NoRow
  /\ restoreOutcome = [ran |-> FALSE, restored |-> FALSE, snapshot |-> NoBackup,
                       read |-> NoBackup, before |-> NoRow]
  /\ pollLog = NoPoll
  /\ statsPersistTimer = FALSE
  /\ statsDirty = FALSE
  /\ starting = NoStarts
  /\ pollLoops = << >>
  /\ pollTimer = 0
  /\ pendingRequest = 0
  /\ requests = << >>
  /\ lastETag = 0
  /\ lastModified = 0
  /\ cachedAircraftData = NoResponse
  /\ initialBackupTimers = 0
  /\ backupInterval = 0
  /\ backupIntervals = {}
  /\ stopLog = NoStop
  /\ fetchLog = NoFetch
  /\ aircraftTracks = << >>
  /\ storedMinuteKeys = << >>
  /\ keyPosts = << >>
  /\ tpm = NoTpm
  /\ completions = << >>

\* A node without antennas for the legacy service.
ConstructedOn(row) == Services(row, << >>)

\* The node has run before: its table holds a row.
Constructed == ConstructedOn(NewStatsRow(StartMs))

\* Tracking runs and nobody calls startTracking or stopTracking.
Init ==
  /\ env \in Profiles
  /\ Constructed
  /\ isRunning = TRUE
  /\ currentStatsId = 1
  /\ calls = NoCalls

EncryptionServiceState ==
  [key |-> currentMinuteEncryptionKey, generated |-> keysGenerated, log |-> encryptions]

\* The state of pipeline p, with the EncryptionService it calls.
View(p) ==
  [queue |-> uploadQueue[p], slots |-> availableSlots[p], active |-> activeUploads[p],
   progress |-> uploadProgress[p], processing |-> isProcessingQueue[p],
   inflight |-> inflight[p], ustats |-> uploadStats[p], ledger |-> ledger[p],
   enc |-> EncryptionServiceState]

\* The next state holds Wc for the clear pipeline, We for the encrypted one
\* and E for the EncryptionService.
Commit2(Wc, We, E) ==
  LET W == [p \in Pipes |-> IF p = "clear" THEN Wc ELSE We]
  IN /\ uploadQueue' = [p \in Pipes |-> W[p].queue]
     /\ availableSlots' = [p \in Pipes |-> W[p].slots]
     /\ activeUploads' = [p \in Pipes |-> W[p].active]
     /\ uploadProgress' = [p \in Pipes |-> W[p].progress]
     /\ isProcessingQueue' = [p \in Pipes |-> W[p].processing]
     /\ inflight' = [p \in Pipes |-> W[p].inflight]
     /\ uploadStats' = [p \in Pipes |-> W[p].ustats]
     /\ ledger' = [p \in Pipes |-> W[p].ledger]
     /\ currentMinuteEncryptionKey' = E.key
     /\ keysGenerated' = E.generated
     /\ encryptions' = E.log

Commit(p, W) ==
  IF p = "clear" THEN Commit2(W, View("enc"), W.enc) ELSE Commit2(View("clear"), W, W.enc)

Spent(field) == env' = [env EXCEPT ![field] = @ - 1]

\* ----------------------------------------------------------------- actions
\* scheduleStatsPersist: statsDirty is set, and the debounce timer unless one
\* is pending.
ScheduleStatsPersist ==
  /\ statsDirty' = TRUE
  /\ statsPersistTimer' = TRUE

\* What a timer callback adds to the record of the last stopTracking.
Fired(log, timer) ==
  IF log.stopped THEN [log EXCEPT !.fired = @ \cup {timer}] ELSE log

\* What the poll at time t with the hexes `present`, classified as `events`
\* and with the hexes `gone` marked out of range, adds to the history of hex h.
Sighted(sg, h, present, events, gone, t) ==
  IF h \in present
  THEN LET returned == sg.lastObserved >= 0 /\ sg.missedLong
       IN [lastObserved |-> t, missedLong |-> FALSE, markedOutOfRange |-> FALSE,
           returnedAs |-> IF returned THEN events[h] ELSE sg.returnedAs,
           returnedAfterMark |-> IF returned THEN sg.markedOutOfRange
                                 ELSE sg.returnedAfterMark]
  ELSE [sg EXCEPT !.missedLong = @ \/ (sg.lastObserved >= 0
                                        /\ t - sg.lastObserved > REAPPEAR_THRESHOLD_MS),
                  !.markedOutOfRange = @ \/ h \in gone]

\* The batches of the items that `after` holds beyond `before`.
Enqueued(before, after) ==
  [i \in 1..(Len(after) - Len(before)) |-> after[Len(before) + i].batch]

\* pollAndProcess from the return of fetchAircraftData on, through
\* processBatch, processEncryptedBatch and the dispatch loops; `cycles` is what
\* the run adds to totalPollCycles.
Ingest(response, cycles) ==
  IF response.kind # "data"
  THEN /\ stats' = [stats EXCEPT !.totalPollCycles = @ + cycles]
       /\ pollLog' = [NoPoll EXCEPT !.response = response, !.at = now,
                                    !.previous = [response |-> pollLog.response,
                                                  at |-> pollLog.at],
                                    !.cacheBefore = aircraftCache]
       /\ UNCHANGED << aircraftCache, aircraftBatch, encryptedAircraftBatch,
                       batchUuidMap, uploadQueue, activeUploads, availableSlots,
                       uploadProgress, isProcessingQueue, inflight, uploadStats,
                       currentMinuteEncryptionKey, keysGenerated,
                       outOfRangeUpdates, ledger, batchesCreated,
                       encryptions, sightings, aircraftTracks >>
       /\ UNCHANGED persistVars
  ELSE
    \* each value is computed once, in the order of the code
    \E C \in { ClassifyFrom(response.aircraft, 1, SnapshotTimeOf(response, now), now,
                  [cache |-> aircraftCache, batch |-> aircraftBatch,
                   encryptedBatch |-> encryptedAircraftBatch, seenInThisPoll |-> {},
                   totalNewAircraft |-> stats.totalNewAircraft,
                   totalUpdates |-> stats.totalUpdates,
                   totalReappeared |-> stats.totalReappeared,
                   events |-> [h \in AllHexes |-> "ABSENT"]]) } :
    \E gone \in { OutOfRangeHexes(C.cache, C.seenInThisPoll, now) } :
    \E Bc \in { EnqueueClearFrom(Chunks(C.batch), 1,
                   [W |-> View("clear"), map |-> batchUuidMap,
                    created |-> batchesCreated["clear"]]) } :
    \E Wc \in { IF Len(C.batch) > 0 THEN ProcessQueue("clear", Bc.W, now)
                 ELSE View("clear") } :
    \E Be \in { EnqueueEncryptedFrom(Chunks(C.encryptedBatch), 1,
                   [W |-> [View("enc") EXCEPT !.enc = Wc.enc], map |-> Bc.map,
                    created |-> batchesCreated["enc"]]) } :
    \E We \in { IF Len(C.encryptedBatch) > 0 THEN ProcessQueue("enc", Be.W, now)
                 ELSE [View("enc") EXCEPT !.enc = Wc.enc] } :
       /\ IF C.totalNewAircraft + C.totalUpdates + C.totalReappeared
               > stats.totalNewAircraft + stats.totalUpdates + stats.totalReappeared
          THEN ScheduleStatsPersist
          ELSE UNCHANGED persistVars
       /\ stats' = [totalNewAircraft |-> C.totalNewAircraft,
                    totalUpdates |-> C.totalUpdates,
                    totalReappeared |-> C.totalReappeared,
                    totalPollCycles |-> stats.totalPollCycles + cycles]
       /\ aircraftCache' = [h \in AllHexes |->
                              IF h \in gone THEN NoState ELSE C.cache[h]]
       /\ outOfRangeUpdates' = IF gone = {} THEN outOfRangeUpdates
                               ELSE outOfRangeUpdates \cup {[hexes |-> gone, at |-> now]}
       /\ aircraftTracks' = IF gone = {} THEN aircraftTracks
                            ELSE MarkOutOfRange(aircraftTracks, gone, now)
       /\ aircraftBatch' = IF Len(C.batch) > 0 THEN << >> ELSE C.batch
       /\ encryptedAircraftBatch' = IF Len(C.encryptedBatch) > 0 THEN << >>
                                    ELSE C.encryptedBatch
       /\ batchUuidMap' = Bc.map
       /\ batchesCreated' = [p \in Pipes |->
                               IF p = "clear" THEN Bc.created ELSE Be.created]
       /\ Commit2(Wc, We, We.enc)
       /\ sightings' = [h \in AllHexes |->
                          Sighted(sightings[h], h, C.seenInThisPoll, C.events, gone, now)]
       /\ pollLog' =
            [response |-> response, at |-> now,
             previous |-> [response |-> pollLog.response, at |-> pollLog.at],
             cacheBefore |-> aircraftCache,
             events |-> C.events,
             buffered |-> C.batch, bufferedEncrypted |-> C.encryptedBatch,
             enqueued |-> [p \in Pipes |->
                             IF p = "clear"
                             THEN Enqueued(uploadQueue["clear"], Bc.W.queue)
                             ELSE Enqueued(uploadQueue["enc"], Be.W.queue)],
             outOfRange |-> gone,
             counted |-> (C.totalNewAircraft + C.totalUpdates + C.totalReappeared)
                         - (stats.totalNewAircraft + stats.totalUpdates
                            + stats.totalReappeared),
             countersTouched |->
               \/ C.totalNewAircraft # stats.totalNewAircraft
               \/ C.totalUpdates # stats.totalUpdates
               \/ C.totalReappeared # stats.totalReappeared,
             uploadsTouched |->
               \/ Wc.ustats # uploadStats["clear"]
               \/ We.ustats # uploadStats["enc"]]

\* One run of poll() in startPolling: pollAndProcess with the fetch's result.
PollAndProcess(response) ==
  /\ env.polls > 0
  /\ Spent("polls")
  /\ Ingest(response, 1)
  /\ UNCHANGED << now, nildbKeysSaved, archive, systemStatsRow, statsBackups,
                  restoredRow, restoreOutcome >>
  /\ UNCHANGED trackingVars
  /\ UNCHANGED << keyVars, tpmVars >>

\* The data item the gateway stores for the attempt r of pipeline p.
DataItem(p, r) ==
  [pipe |-> p, serial |-> r.item.serial, attempt |-> r.attempt,
   packageUuid |-> r.sent.packageUuid, encryptionKeyUuid |-> r.sent.keyUuid,
   iv |-> r.sent.iv, batch |-> r.item.batch]

\* prepareEncryptedParquetBuffer has written the parquet file: it encrypts the
\* buffer, and uploadBatchParquetEncrypted hands the result to turbo.upload.
PrepareEncrypted(r) ==
  /\ r \in inflight["enc"]
  /\ r.phase = "preparing"
  /\ "enc" \in env.answered
  /\ ValidInputs(r.item.batch)
  /\ LET W == View("enc")
         e == EncryptBuffer(W.enc, ParquetOf(r.item.batch), r.item.packageUuid, now,
                            Iv(r.item.serial, r.attempt))
         sent == [iv |-> e.result.encryptedBuffer.iv,
                  keyUuid |-> e.result.encryptionKeyUuid,
                  packageUuid |-> r.item.packageUuid,
                  dataHash |-> e.result.dataHash, prepared |-> TRUE]
     IN /\ Commit("enc",
             [W EXCEPT !.enc = e.service,
                       !.inflight = (@ \ {r}) \cup
                         {[r EXCEPT !.phase = "uploading", !.sent = sent,
                                    !.first = IF r.attempt = 1 THEN sent ELSE @]}])
        /\ keyPosts' = StoreKeyInNilDB(storedMinuteKeys, keyPosts,
                                       e.result.encryptionKeyUuid,
                                       KeyStoreUp(env.profile))
  /\ UNCHANGED << now, env, aircraftCache, aircraftBatch, encryptedAircraftBatch,
                  batchUuidMap, stats, nildbKeysSaved, archive, outOfRangeUpdates,
                  batchesCreated, sightings, systemStatsRow, statsBackups,
                  restoredRow, restoreOutcome >>
  /\ UNCHANGED pollLog
  /\ UNCHANGED persistVars
  /\ UNCHANGED trackingVars
  /\ UNCHANGED << aircraftTracks, storedMinuteKeys, tpmVars >>

\* turbo.upload returned a transaction id and the track upsert went through:
\* uploadFn returns and executeWithRetry counts the batch as succeeded.
UploadSucceeds(p, r) ==
  /\ r \in inflight[p]
  /\ r.phase = "uploading"
  /\ p \in env.answered
  /\ ValidInputs(r.item.batch)
  /\ archive' = archive \cup {DataItem(p, r)}
  /\ nildbKeysSaved' = IF p = "enc" THEN nildbKeysSaved + 1 ELSE nildbKeysSaved
  /\ LET W == View(p)
     IN Commit(p, AttemptSucceeded(p,
                    [W EXCEPT !.ledger = Booked(@, r.item.serial, "uploads", 1)], r, now))
  /\ UNCHANGED << now, env, aircraftCache, aircraftBatch, encryptedAircraftBatch,
                  batchUuidMap, stats, outOfRangeUpdates, batchesCreated, sightings,
                  systemStatsRow, statsBackups, restoredRow, restoreOutcome >>
  /\ UNCHANGED pollLog
  /\ ScheduleStatsPersist
  /\ UNCHANGED trackingVars
  /\ aircraftTracks' = SaveTracks(aircraftTracks,
                                  FindTracks(aircraftTracks, r.item.batch), now)
  /\ tpm' = UpdateTpmEMA(tpm, now)
  /\ completions' = Append(completions, now)
  /\ UNCHANGED keyVars

\* turbo.upload returned a transaction id, then aircraftTrackRepo.find or
\* aircraftTrackRepo.save threw: uploadBatch rethrows to executeWithRetry.
UpsertFails(p, r) ==
  /\ r \in inflight[p]
  /\ r.phase = "uploading"
  /\ p \in env.answered
  /\ ValidInputs(r.item.batch)
  /\ env.dbFails > 0
  /\ Spent("dbFails")
  /\ archive' = archive \cup {DataItem(p, r)}
  /\ nildbKeysSaved' = IF p = "enc" THEN nildbKeysSaved + 1 ELSE nildbKeysSaved
  /\ LET W == View(p)
     IN Commit(p, AttemptFailed(p,
                    [W EXCEPT !.ledger = Booked(Booked(@, r.item.serial, "uploads", 1),
                                                r.item.serial, "upsertFailures", 1)],
                    r, now))
  /\ UNCHANGED << now, aircraftCache, aircraftBatch, encryptedAircraftBatch,
                  batchUuidMap, stats, outOfRangeUpdates, batchesCreated, sightings,
                  systemStatsRow, statsBackups, restoredRow, restoreOutcome >>
  /\ UNCHANGED pollLog
  /\ IF AttemptsExhausted(r.attempt, MAX_ATTEMPTS)
     THEN ScheduleStatsPersist
     ELSE UNCHANGED persistVars
  /\ UNCHANGED trackingVars
  /\ UNCHANGED << aircraftTracks, keyVars, tpmVars >>

\* The parquet writer, the validation or turbo.upload threw.
UploadFails(p, r) ==
  /\ r \in inflight[p]
  /\ r.phase \in {"preparing", "uploading"}
  /\ p \in env.answered
  /\ IF ValidInputs(r.item.batch)
     THEN env.fails > 0 /\ Spent("fails")
     ELSE UNCHANGED env
  /\ LET W == View(p)
     IN Commit(p, AttemptFailed(p,
                    [W EXCEPT !.ledger = Booked(@, r.item.serial, "failures", 1)], r, now))
  /\ UNCHANGED << now, aircraftCache, aircraftBatch, encryptedAircraftBatch,
                  batchUuidMap, stats, nildbKeysSaved, archive, outOfRangeUpdates,
                  batchesCreated, sightings, systemStatsRow, statsBackups,
                  restoredRow, restoreOutcome >>
  /\ UNCHANGED pollLog
  /\ IF AttemptsExhausted(r.attempt, MAX_ATTEMPTS)
     THEN ScheduleStatsPersist
     ELSE UNCHANGED persistVars
  /\ UNCHANGED trackingVars
  /\ UNCHANGED << aircraftTracks, keyVars, tpmVars >>

\* The backoff timer of executeWithRetry fired: the next attempt starts.
BackoffExpires(p, r) ==
  /\ r \in inflight[p]
  /\ r.phase = "backoff"
  /\ Commit(p, StartAttempt(p, View(p), [r EXCEPT !.attempt = @ + 1], now))
  /\ UNCHANGED << now, env, aircraftCache, aircraftBatch, encryptedAircraftBatch,
                  batchUuidMap, stats, nildbKeysSaved, archive, outOfRangeUpdates,
                  batchesCreated, sightings, systemStatsRow, statsBackups,
                  restoredRow, restoreOutcome >>
  /\ UNCHANGED pollLog
  /\ UNCHANGED persistVars
  /\ UNCHANGED trackingVars
  /\ UNCHANGED << aircraftTracks, keyVars, tpmVars >>

\* The debounce timer of scheduleStatsPersist fired: with statsDirty set,
\* persistStats writes the counters to the row; the timer is gone.
PersistStats ==
  /\ statsPersistTimer
  /\ env.persists > 0
  /\ Spent("persists")
  /\ systemStatsRow' =
       IF statsDirty /\ systemStatsRow.exists
       THEN [systemStatsRow EXCEPT
               !.counters = PersistedCounters(stats, uploadStats, nildbKeysSaved),
               !.updated_at = now]
       ELSE systemStatsRow
  /\ statsDirty' = FALSE
  /\ statsPersistTimer' = FALSE
  /\ stopLog' = Fired(stopLog, "persist")
  /\ UNCHANGED << now, aircraftCache, aircraftBatch, encryptedAircraftBatch, batchUuidMap,
                  uploadQueue, activeUploads, availableSlots, uploadProgress,
                  isProcessingQueue, inflight, stats, uploadStats, nildbKeysSaved,
                  currentMinuteEncryptionKey, keysGenerated, archive,
                  outOfRangeUpdates, ledger, batchesCreated, encryptions, sightings,
                  statsBackups, restoredRow, restoreOutcome >>
  /\ UNCHANGED pollLog
  /\ UNCHANGED << pollingVars, backupVars, sideVars >>
  /\ UNCHANGED << aircraftTracks, keyVars, tpmVars >>

\* backupStats: the row is read, the backup object written to a file, the
\* file encrypted with encryptFile(.., STATS_BACKUP_UUID) and uploaded.
BackupStatsRun ==
  /\ env.backups > 0
  /\ Spent("backups")
  /\ systemStatsRow.exists
  /\ LET backup == BackupObject(systemStatsRow, now, Len(statsBackups) + 1)
         e == EncryptFile(EncryptionServiceState, JsonStringify(backup),
                          STATS_BACKUP_UUID, now, Iv(0, Len(statsBackups) + 1))
     IN /\ statsBackups' = Append(statsBackups,
                                  [package |-> e.result.encryptedBuffer,
                                   timestamp |-> backup.timestamp,
                                   written |-> backup])
        /\ currentMinuteEncryptionKey' = e.service.key
        /\ keysGenerated' = e.service.generated
        /\ encryptions' = e.service.log
  /\ UNCHANGED << now, aircraftCache, aircraftBatch, encryptedAircraftBatch, batchUuidMap,
                  uploadQueue, activeUploads, availableSlots, uploadProgress,
                  isProcessingQueue, inflight, stats, uploadStats, nildbKeysSaved,
                  archive, outOfRangeUpdates, ledger, batchesCreated, sightings,
                  systemStatsRow, restoredRow, restoreOutcome >>
  /\ UNCHANGED pollLog
  /\ UNCHANGED persistVars
  /\ UNCHANGED pollingVars
  /\ UNCHANGED << aircraftTracks, keyVars, tpmVars >>

\* A backup timer of a tracker that keeps running fired.
BackupStats ==
  /\ BackupStatsRun
  /\ UNCHANGED << backupVars, sideVars, stopLog >>

\* startTracking on the restoring node (same master key): restoreStatsFromBackup
\* runs against that node's table.
RestoreStats ==
  /\ env.restores > 0
  /\ Spent("restores")
  /\ LET outcome == RestoreStatsFromBackup(statsBackups, restoredRow, now)
     IN /\ restoredRow' = outcome.row
        /\ restoreOutcome' =
             [ran |-> TRUE, restored |-> outcome.restored,
              read |-> QueryLatestBackup(statsBackups),
              before |-> restoredRow,
              snapshot |-> IF Len(statsBackups) = 0 THEN NoBackup
                           ELSE LET w == statsBackups[Len(statsBackups)].written
                                IN [found |-> TRUE, timestamp |-> w.timestamp,
                                    stats |-> w.stats, backupId |-> w.backupId]]
  /\ UNCHANGED << now, aircraftCache, aircraftBatch, encryptedAircraftBatch, batchUuidMap,
                  uploadQueue, activeUploads, availableSlots, uploadProgress,
                  isProcessingQueue, inflight, stats, uploadStats, nildbKeysSaved,
                  currentMinuteEncryptionKey, keysGenerated, archive,
                  outOfRangeUpdates, ledger, batchesCreated, encryptions, sightings,
                  systemStatsRow, statsBackups >>
  /\ UNCHANGED pollLog
  /\ UNCHANGED persistVars
  /\ UNCHANGED trackingVars
  /\ UNCHANGED << aircraftTracks, keyVars, tpmVars >>

\* Time passes.
AdvanceClock(d) ==
  /\ env.ticks > 0
  /\ Spent("ticks")
  /\ now' = now + d
  /\ UNCHANGED << aircraftCache, aircraftBatch, encryptedAircraftBatch, batchUuidMap,
                  uploadQueue, activeUploads, availableSlots, uploadProgress,
                  isProcessingQueue, inflight, stats, uploadStats, nildbKeysSaved,
                  currentMinuteEncryptionKey, keysGenerated, archive,
                  outOfRangeUpdates, ledger, batchesCreated, encryptions, sightings,
                  systemStatsRow, statsBackups, restoredRow, restoreOutcome >>
  /\ UNCHANGED pollLog
  /\ UNCHANGED persistVars
  /\ UNCHANGED trackingVars
  /\ UNCHANGED << aircraftTracks, keyVars, tpmVars >>

Next ==
  \/ \E response \in Feed(env.profile, env.polls) : PollAndProcess(response)
  \/ \E r \in inflight["enc"] : PrepareEncrypted(r)
  \/ \E p \in Pipes : \E r \in inflight[p] : UploadSucceeds(p, r)
  \/ \E p \in Pipes : \E r \in inflight[p] : UpsertFails(p, r)
  \/ \E p \in Pipes : \E r \in inflight[p] : UploadFails(p, r)
  \/ \E p \in Pipes : \E r \in inflight[p] : BackoffExpires(p, r)
  \/ PersistStats
  \/ BackupStats
  \/ RestoreStats
  \/ \E d \in ClockSteps(env.profile) : AdvanceClock(d)

Spec == Init /\ [][Next]_vars

\* ------------------------------------------------ startTracking, stopTracking
\* The poll() closure of one startPolling call: waiting for its timer
\* ("timer"), awaiting the feed request inside pollAndProcess ("fetch"), about
\* to continue with the settled request's result ("resumed"), or over
\* ("ended").
NewLoop == [phase |-> "ended", request |-> 0, owner |-> FALSE, result |-> NoResponse,
            completed |-> 0]

\* A rejected fetch.
Failure == [kind |-> "error", aircraft |-> << >>, stamped |-> FALSE]

\* The body the feed serves to request q, and its ETag / Last-Modified.
Body(q) == Data(<< Observation("a", q) >>)

Validator(q) == q

\* What JSON.parse gives for the body served to request q: aircraft, or an
\* object without an aircraft list.
Parsed(q, outcome) == IF outcome = "data" THEN Body(q) ELSE NoData

\* How the feed may answer a request: a body with aircraft or without, 304 to
\* a conditional request, a body that does not parse, no answer within the
\* agent's timeout, or a network error.
FeedOutcomes == {"data", "nodata", "notModified", "parse", "timeout", "error"}

Outcomes(profile, request) ==
  IF profile \in {"queue", "exhaust", "reload"} THEN {"data"}
  ELSE (FeedOutcomes \ {"notModified"})
         \cup (IF request.conditional THEN {"notModified"} ELSE {})

\* The mutant: every call makes its own request.
SharesPending_Never(pending) == FALSE

\* fetchAircraftData: if (this.pendingRequest) return this.pendingRequest.
SharesPending(pending) == pending # 0

\* The mutant: a poll that threw ends the loop.
Reschedules_UnlessThrown(thrown) == ~thrown

\* poll(): the try/catch around pollAndProcess falls through to setTimeout.
Reschedules(thrown) == TRUE

\* A continuation is in the microtask queue: it runs before any other callback.
Resuming == \E l \in DOMAIN pollLoops : pollLoops[l].phase = "resumed"

\* httpsAgent.destroy() has destroyed the socket of a request whose 'error'
\* has not been emitted yet: the socket's close callback runs in the event
\* loop iteration of the destroy, before the timers and the I/O completions
\* of the next one.
Closing == \E q \in DOMAIN requests : requests[q].state = "destroyed"

\* What pollAndProcess writes after the fetch.
ingestVars == << stats, pollLog, aircraftCache, aircraftBatch, encryptedAircraftBatch,
                 batchUuidMap, uploadQueue, activeUploads, availableSlots,
                 uploadProgress, isProcessingQueue, inflight, uploadStats,
                 currentMinuteEncryptionKey, keysGenerated, outOfRangeUpdates,
                 ledger, batchesCreated, encryptions, sightings, persistVars,
                 aircraftTracks >>

\* What no step of startTracking, stopTracking or the poll loop writes.
storeVars == << now, nildbKeysSaved, archive, statsBackups, restoredRow, restoreOutcome,
               keyVars, tpmVars >>

\* poll() for the loop l of `loops`: it returns when tracking is stopped;
\* otherwise pollAndProcess counts the cycle and awaits fetchAircraftData,
\* which shares the pending request or makes one.
Poll(loops, l) ==
  IF ~isRunning
  THEN /\ pollLoops' = [loops EXCEPT ![l].phase = "ended"]
       /\ UNCHANGED << env, stats, pendingRequest, requests >>
  ELSE /\ Spent("polls")
       /\ stats' = [stats EXCEPT !.totalPollCycles = @ + 1]
       /\ IF SharesPending(pendingRequest)
          THEN /\ pollLoops' = [loops EXCEPT ![l].phase = "fetch",
                                             ![l].request = pendingRequest,
                                             ![l].owner = FALSE]
               /\ UNCHANGED << pendingRequest, requests >>
          ELSE /\ requests' = Append(requests,
                                [state |-> "flying",
                                 conditional |-> lastETag # 0 \/ lastModified # 0])
               /\ pendingRequest' = Len(requests) + 1
               /\ pollLoops' = [loops EXCEPT ![l].phase = "fetch",
                                             ![l].request = Len(requests) + 1,
                                             ![l].owner = TRUE]

\* The controller calls startTracking: it returns at once when tracking
\* runs, and otherwise sets isRunning and awaits restoreStatsFromBackup.
StartTracking ==
  /\ ~Resuming
  /\ calls.starts > 0
  /\ calls' = [calls EXCEPT !.starts = @ - 1]
  /\ IF isRunning
     THEN UNCHANGED << isRunning, starting, stopLog >>
     ELSE /\ isRunning' = TRUE
          /\ starting' = [starting EXCEPT !.restore = @ + 1]
          /\ stopLog' = [stopLog EXCEPT !.stopped = FALSE]
  /\ UNCHANGED << env, ingestVars, storeVars, systemStatsRow, pollLoops, pollTimer,
                  pendingRequest, requests, lastETag, lastModified,
                  cachedAircraftData, fetchLog, backupVars, sideVars >>

\* loadOrCreateStats: what findOne({order: {id: 'DESC'}}) returns on a table
\* of n rows whose newest is `row`.
FindLatest(n, row) == [id |-> n, row |-> row]

\* restoreStatsFromBackup returned to a startTracking call, which awaits the
\* findOne of loadOrCreateStats.  The database runs the queries in the order
\* they are issued, so the find returns the table of this instant.
StartRestored ==
  /\ ~Resuming /\ ~Closing
  /\ starting.restore > 0
  /\ systemStatsRow' = RestoreStatsFromBackup(statsBackups, systemStatsRow, now).row
  /\ starting' = [starting EXCEPT !.restore = @ - 1,
                                  !.load = Append(@, FindLatest(statsRows,
                                                                systemStatsRow'))]
  /\ UNCHANGED << env, ingestVars, storeVars, isRunning, pollLoops, pollTimer,
                  pendingRequest, requests, lastETag, lastModified,
                  cachedAircraftData, calls, fetchLog, backupVars, sideVars, stopLog >>

\* loadOrCreateStats: the counters in memory are those of the row.
LoadedUploadStats(row) ==
  [p \in Pipes |->
     IF p = "clear"
     THEN [attempted |-> row.counters.total_uploads_attempted,
           succeeded |-> row.counters.total_uploads_succeeded,
           failed |-> row.counters.total_uploads_failed,
           retries |-> row.counters.total_retries]
     ELSE [attempted |-> row.counters.encrypted_uploads_attempted,
           succeeded |-> row.counters.encrypted_uploads_succeeded,
           failed |-> row.counters.encrypted_uploads_failed,
           retries |-> row.counters.encrypted_retries]]

LoadedStats(row) ==
  [totalNewAircraft |-> row.counters.total_new_aircraft,
   totalUpdates |-> row.counters.total_updates,
   totalReappeared |-> row.counters.total_reappeared,
   totalPollCycles |-> row.counters.total_poll_cycles]

\* loadOrCreateStats: if (existing) ... else save a new row.
CreatesRow(existing, rows) == ~existing.row.exists

\* The findOne of loadOrCreateStats returned to a startTracking call: the
\* counters of the row found are loaded and its start time is updated, or a
\* new row is saved; currentStatsId is that row's id.  The call goes on to
\* startAutoBackup and awaits loadExistingTracks.
StartLoaded ==
  /\ ~Resuming /\ ~Closing
  /\ Len(starting.load) > 0
  /\ starting' = [starting EXCEPT !.load = Tail(@), !.tracks = @ + 1]
  /\ LET existing == Head(starting.load)
     IN IF CreatesRow(existing, statsRows)
        THEN /\ systemStatsRow' = NewStatsRow(now)
             /\ statsRows' = statsRows + 1
             /\ currentStatsId' = statsRows + 1
             /\ UNCHANGED << stats, uploadStats, nildbKeysSaved >>
        ELSE /\ stats' = LoadedStats(existing.row)
             /\ uploadStats' = LoadedUploadStats(existing.row)
             /\ nildbKeysSaved' = existing.row.counters.nildb_keys_saved
             /\ currentStatsId' = existing.id
             /\ systemStatsRow' =
                  IF existing.id = statsRows
                  THEN [systemStatsRow EXCEPT !.system_start_time = now,
                                              !.updated_at = now]
                  ELSE systemStatsRow
             /\ UNCHANGED statsRows
  /\ initialBackupTimers' = initialBackupTimers + 1
  /\ backupInterval' = backupInterval + 1
  /\ backupIntervals' = backupIntervals \cup {backupInterval + 1}
  /\ UNCHANGED << backupRead, sideVars >>
  /\ UNCHANGED << now, env, pollLog, aircraftCache, aircraftBatch,
                  encryptedAircraftBatch, batchUuidMap, uploadQueue, activeUploads,
                  availableSlots, uploadProgress, isProcessingQueue, inflight,
                  currentMinuteEncryptionKey, keysGenerated, outOfRangeUpdates,
                  ledger, batchesCreated, encryptions, sightings, persistVars,
                  archive, statsBackups, restoredRow, restoreOutcome,
                  isRunning, pollLoops, pollTimer, pendingRequest, requests,
                  lastETag, lastModified, cachedAircraftData, calls, fetchLog,
                  stopLog, aircraftTracks, keyVars, tpmVars >>

\* loadExistingTracks returned to a startTracking call: startPolling makes a
\* poll closure and calls it.
StartPolling ==
  /\ ~Resuming /\ ~Closing
  /\ starting.tracks > 0
  /\ ~isRunning \/ env.polls > 0
  /\ starting' = [starting EXCEPT !.tracks = @ - 1]
  /\ Poll(Append(pollLoops, NewLoop), Len(pollLoops) + 1)
  /\ UNCHANGED << pollLog, aircraftCache, aircraftBatch, encryptedAircraftBatch,
                  batchUuidMap, uploadQueue, activeUploads, availableSlots,
                  uploadProgress, isProcessingQueue, inflight, uploadStats,
                  currentMinuteEncryptionKey, keysGenerated, outOfRangeUpdates,
                  ledger, batchesCreated, encryptions, sightings, persistVars,
                  storeVars, systemStatsRow, isRunning, pollTimer, lastETag,
                  lastModified, cachedAircraftData, calls, fetchLog, backupVars, sideVars,
                  stopLog, aircraftTracks >>

\* The timer of loop l fired: poll() runs.
PollTimerFires(l) ==
  /\ ~Resuming /\ ~Closing
  /\ pollLoops[l].phase = "timer"
  /\ ~isRunning \/ env.polls > 0
  /\ Poll(pollLoops, l)
  /\ UNCHANGED << pollLog, aircraftCache, aircraftBatch, encryptedAircraftBatch,
                  batchUuidMap, uploadQueue, activeUploads, availableSlots,
                  uploadProgress, isProcessingQueue, inflight, uploadStats,
                  currentMinuteEncryptionKey, keysGenerated, outOfRangeUpdates,
                  ledger, batchesCreated, encryptions, sightings, persistVars,
                  storeVars, systemStatsRow, isRunning, starting, pollTimer,
                  lastETag, lastModified, cachedAircraftData, calls, fetchLog,
                  backupVars, sideVars, stopLog, aircraftTracks >>

\* The promise of request q settles: the response callback, the 'timeout'
\* handler or the 'error' handler ran.  The finally of the call that made the
\* request clears pendingRequest, and every poll that awaits the request
\* continues.
FetchSettles(q, outcome) ==
  /\ ~Resuming
  /\ \/ /\ requests[q].state = "flying"
        /\ ~Closing
        /\ outcome \in Outcomes(env.profile, requests[q])
     \/ /\ requests[q].state = "destroyed"
        /\ outcome = "error"
  /\ requests' = [requests EXCEPT ![q].state = "settled"]
  /\ CASE outcome \in {"data", "nodata"} ->
            /\ lastETag' = Validator(q)
            /\ lastModified' = Validator(q)
            /\ cachedAircraftData' = Parsed(q, outcome)
       [] outcome = "parse" ->
            /\ lastETag' = 0
            /\ lastModified' = 0
            /\ cachedAircraftData' = NoResponse
       [] OTHER -> UNCHANGED << lastETag, lastModified, cachedAircraftData >>
  /\ pendingRequest' = 0
  /\ LET result == CASE outcome \in {"data", "nodata"} -> Parsed(q, outcome)
                     [] outcome = "notModified" -> cachedAircraftData
                     [] OTHER -> Failure
     IN pollLoops' = [l \in DOMAIN pollLoops |->
                        IF pollLoops[l].phase = "fetch" /\ pollLoops[l].request = q
                        THEN [pollLoops[l] EXCEPT !.phase = "resumed", !.result = result]
                        ELSE pollLoops[l]]
  /\ fetchLog' = [outcome |-> outcome, request |-> q]
  /\ UNCHANGED << env, ingestVars, storeVars, systemStatsRow, isRunning, starting,
                  pollTimer, calls, backupVars, sideVars, stopLog >>

\* The poll of loop l continues after its await: pollAndProcess ingests the
\* data or returns or throws, and poll() sets the next timer.
LoopResumes(l) ==
  /\ pollLoops[l].phase = "resumed"
  /\ LET result == pollLoops[l].result
         thrown == result.kind = "error"
     IN /\ IF thrown THEN UNCHANGED ingestVars ELSE Ingest(result, 0)
        /\ IF Reschedules(thrown)
           THEN /\ pollLoops' = [pollLoops EXCEPT ![l].phase = "timer",
                                                  ![l].result = NoResponse,
                                                  ![l].completed = @ + 1]
                /\ pollTimer' = l
           ELSE /\ pollLoops' = [pollLoops EXCEPT ![l].phase = "ended",
                                                  ![l].result = NoResponse,
                                                  ![l].completed = @ + 1]
                /\ UNCHANGED pollTimer
  /\ UNCHANGED << env, storeVars, systemStatsRow, isRunning, starting,
                  pendingRequest, requests, lastETag, lastModified,
                  cachedAircraftData, calls, fetchLog, backupVars, sideVars, stopLog >>

\* The serials of the batches that wait in a queue.
Queued(queue) == { queue[i].serial : i \in 1..Len(queue) }

\* The controller calls stopTracking.
StopTracking ==
  /\ ~Resuming
  /\ calls.stops > 0
  /\ calls' = [calls EXCEPT !.stops = @ - 1]
  /\ isRunning' = FALSE
  /\ pollLoops' = [l \in DOMAIN pollLoops |->
                     IF l = pollTimer /\ pollLoops[l].phase = "timer"
                     THEN [pollLoops[l] EXCEPT !.phase = "ended"]
                     ELSE pollLoops[l]]
  /\ backupIntervals' = backupIntervals \ {backupInterval}
  /\ lastETag' = 0
  /\ lastModified' = 0
  /\ cachedAircraftData' = NoResponse
  /\ pendingRequest' = 0
  /\ requests' = [q \in DOMAIN requests |->
                    IF requests[q].state = "flying"
                    THEN [requests[q] EXCEPT !.state = "destroyed"]
                    ELSE requests[q]]
  /\ stopLog' = [stopped |-> TRUE,
                 queued |-> [p \in Pipes |-> Queued(uploadQueue[p])],
                 fired |-> {}]
  /\ UNCHANGED << env, ingestVars, storeVars, systemStatsRow, starting, pollTimer,
                  fetchLog, initialBackupTimers, backupInterval, backupRead,
                  tableVars, sideVars >>

\* The 60 s timeout of a startAutoBackup call fired.
InitialBackupFires ==
  /\ ~Resuming /\ ~Closing
  /\ initialBackupTimers > 0
  /\ BackupStatsRun
  /\ initialBackupTimers' = initialBackupTimers - 1
  /\ stopLog' = Fired(stopLog, "initialBackup")
  /\ UNCHANGED << backupInterval, backupIntervals, backupRead, tableVars, sideVars >>

\* An interval of a startAutoBackup call fired.
PeriodicBackupFires ==
  /\ ~Resuming /\ ~Closing
  /\ backupIntervals # {}
  /\ BackupStatsRun
  /\ stopLog' = Fired(stopLog, "periodicBackup")
  /\ UNCHANGED << backupVars, sideVars >>

\* The controller calls, and what the feed and the gateway do, within the
\* horizon of a tracker that is started and stopped.
LifeCalls(profile) ==
  IF profile = "fetch" THEN [starts |-> MaxStarts, stops |-> MaxStops]
  ELSE IF profile = "reload" THEN [starts |-> 2, stops |-> 1]
  ELSE [starts |-> 1, stops |-> 1]

LifeProfiles ==
  { Profile("queue", {"clear"}, LoadPolls, 0, 0, 0, 0),
    Profile("fetch", {}, FetchPolls, 0, 0, 0, 0),
    Profile("timers", {"clear"}, 1, TimersFails, 0, TimersTicks, TimersBackups),
    Profile("exhaust", {"clear"}, 2, MAX_ATTEMPTS, 0, 0, 0),
    Profile("reload", {"clear"}, ReloadPolls, 0, 0, 0, 0) }

\* The services are constructed and startTracking has not been called; the
\* node of profile "reload" is new, its table is empty.
LifeInit ==
  /\ env \in LifeProfiles
  /\ IF env.profile = "reload" THEN ConstructedOn(NoRow) ELSE Constructed
  /\ isRunning = FALSE
  /\ currentStatsId = 0
  /\ calls = LifeCalls(env.profile)

\* A timer or an I/O completion of the upload pipelines.
PipelineStep ==
  /\ ~Resuming /\ ~Closing
  /\ \/ \E p \in Pipes : \E r \in inflight[p] : UploadSucceeds(p, r)
     \/ \E p \in Pipes : \E r \in inflight[p] : UploadFails(p, r)
     \/ \E p \in Pipes : \E r \in inflight[p] : BackoffExpires(p, r)
     \/ PersistStats
     \/ \E d \in ClockSteps(env.profile) : AdvanceClock(d)

LifeProgress ==
  \/ StartRestored
  \/ StartLoaded
  \/ StartPolling
  \/ \E l \in DOMAIN pollLoops : PollTimerFires(l)
  \/ \E q \in DOMAIN requests :
       \E outcome \in FeedOutcomes :
         FetchSettles(q, outcome)
  \/ \E l \in DOMAIN pollLoops : LoopResumes(l)
  \/ InitialBackupFires
  \/ PeriodicBackupFires
  \/ PipelineStep

LifeNext ==
  \/ StartTracking
  \/ StopTracking
  \/ LifeProgress

LifeSpec == LifeInit /\ [][LifeNext]_vars

\* The tracker whose feed fails in every way, stopped once and started again,
\* the one whose timers fire, the one whose upload fails until its attempts
\* are spent, and the one that is never stopped while more batches are
\* enqueued than there are slots.
LiveInit ==
  /\ env \in LifeProfiles
  /\ Constructed
  /\ isRunning = FALSE
  /\ currentStatsId = 0
  /\ calls = [starts |-> IF env.profile = "fetch" THEN 2 ELSE 1,
              stops |-> IF env.profile = "queue" THEN 0 ELSE 1]

\* The timers fire, the awaited calls of startTracking return, every feed
\* request is answered or times out, and the gateway answers.
LiveSpec == LiveInit /\ [][LifeNext]_vars /\ WF_vars(LifeProgress)

\* ------------------------------------- the track store and the key-share store
\* uploadBatch / uploadEncryptedBatch from the return of the archive upload to
\* the first await of the upsert: the encrypted pipeline counts a key as
\* saved, now is taken and aircraftTrackRepo.find is issued.  The database
\* runs the queries of its one connection in the order they are issued, so
\* the rows the find returns are the rows of this instant.
UploadReturns(p, r) ==
  /\ r \in inflight[p]
  /\ r.phase = "uploading"
  /\ p \in env.answered
  /\ ValidInputs(r.item.batch)
  /\ archive' = archive \cup {DataItem(p, r)}
  /\ nildbKeysSaved' = IF p = "enc" THEN nildbKeysSaved + 1 ELSE nildbKeysSaved
  /\ LET W == View(p)
     IN Commit(p, [W EXCEPT !.ledger = Booked(@, r.item.serial, "uploads", 1),
                            !.inflight = (@ \ {r}) \cup
                              {[r EXCEPT !.phase = "saving",
                                         !.existingMap = FindTracks(aircraftTracks,
                                                                    r.item.batch),
                                         !.trackNow = now]}])
  /\ UNCHANGED << now, env, aircraftCache, aircraftBatch, encryptedAircraftBatch,
                  batchUuidMap, stats, outOfRangeUpdates, batchesCreated, sightings,
                  systemStatsRow, statsBackups, restoredRow, restoreOutcome >>
  /\ UNCHANGED pollLog
  /\ UNCHANGED persistVars
  /\ UNCHANGED trackingVars
  /\ UNCHANGED << aircraftTracks, keyVars, tpmVars >>

\* The find has returned, the rows to update and to insert are built from
\* what it returned and aircraftTrackRepo.save has written them: uploadFn
\* returns and executeWithRetry counts the batch as succeeded.
TrackSaved(p, r) ==
  /\ r \in inflight[p]
  /\ r.phase = "saving"
  /\ aircraftTracks' = SaveTracks(aircraftTracks, r.existingMap, r.trackNow)
  /\ Commit(p, AttemptSucceeded(p, View(p), r, now))
  /\ tpm' = UpdateTpmEMA(tpm, now)
  /\ completions' = Append(completions, now)
  /\ ScheduleStatsPersist
  /\ UNCHANGED << now, env, aircraftCache, aircraftBatch, encryptedAircraftBatch,
                  batchUuidMap, stats, nildbKeysSaved, archive, outOfRangeUpdates,
                  batchesCreated, sightings, systemStatsRow, statsBackups,
                  restoredRow, restoreOutcome >>
  /\ UNCHANGED pollLog
  /\ UNCHANGED trackingVars
  /\ UNCHANGED keyVars

\* The key-share service answers the i-th POST of storeKeyInNilDB: with ok the
\* UUID is added to storedMinuteKeys and the set is cut to its last five;
\* otherwise (status not ok, or the request failed) the call returns false.
KeyStoreAnswers(i, ok) ==
  /\ i \in DOMAIN keyPosts
  /\ keyPosts[i].state = "flying"
  /\ keyPosts' = [keyPosts EXCEPT ![i].state = IF ok THEN "stored" ELSE "failed"]
  /\ storedMinuteKeys' = IF ok THEN KeyStored(storedMinuteKeys, keyPosts[i].keyUuid)
                         ELSE storedMinuteKeys
  /\ UNCHANGED << now, env, aircraftCache, aircraftBatch, encryptedAircraftBatch,
                  batchUuidMap, uploadQueue, activeUploads, availableSlots,
                  uploadProgress, isProcessingQueue, inflight, stats, uploadStats,
                  nildbKeysSaved, currentMinuteEncryptionKey, keysGenerated, archive,
                  outOfRangeUpdates, ledger, batchesCreated, encryptions, sightings,
                  systemStatsRow, statsBackups, restoredRow, restoreOutcome >>
  /\ UNCHANGED pollLog
  /\ UNCHANGED persistVars
  /\ UNCHANGED trackingVars
  /\ UNCHANGED << aircraftTracks, tpmVars >>

\* An aircraft that comes, leaves and returns, one whose batch both pipelines
\* upload, and a tracker whose key-share service answers.
StoreProfiles ==
  { Profile("tracks", {"clear"}, TracksPolls, 0, 0, TracksTicks, 0),
    Profile("race", Pipes, RacePolls, 0, 0, RaceTicks, 0),
    Profile("keystore", {"enc"}, KeystorePolls, 1, 0, 0, 0) }

StoreInit ==
  /\ env \in StoreProfiles
  /\ Constructed
  /\ isRunning = TRUE
  /\ currentStatsId = 1
  /\ calls = NoCalls

StoreNext ==
  \/ \E response \in Feed(env.profile, env.polls) : PollAndProcess(response)
  \/ \E r \in inflight["enc"] : PrepareEncrypted(r)
  \/ \E p \in Pipes : \E r \in inflight[p] : UploadReturns(p, r)
  \/ \E p \in Pipes : \E r \in inflight[p] : TrackSaved(p, r)
  \/ \E p \in Pipes : \E r \in inflight[p] : UploadFails(p, r)
  \/ \E p \in Pipes : \E r \in inflight[p] : BackoffExpires(p, r)
  \/ \E i \in DOMAIN keyPosts : \E ok \in BOOLEAN : KeyStoreAnswers(i, ok)
  \/ \E d \in ClockSteps(env.profile) : AdvanceClock(d)

\* The tracker with the steps of the track upsert and of the key-share POST
\* taken one by one.
StoreSpec == StoreInit /\ [][StoreNext]_vars

\* ------------------------------------------------- restoring from a snapshot
\* Counters as a node has them after n polls with one aircraft uploaded.
CountersAfter(n) ==
  [NoCounters EXCEPT !.total_poll_cycles = n, !.total_new_aircraft = 1,
                     !.total_updates = n - 1, !.total_uploads_attempted = n,
                     !.total_uploads_succeeded = n]

\* The times a snapshot or a row may carry: before the restoring node's
\* clock, and at it.
RestoreTimes == {StartMs - MINUTE_MS, StartMs}

\* The archive holds a stats backup that the fixed UUID opens (written by a
\* node whose backups are sealed with the key of that UUID): what
\* queryLatestBackup downloads.
SnapshotFound(timestamp, counters) ==
  /\ env.backups > 0
  /\ Spent("backups")
  /\ LET backup == [timestamp |-> timestamp,
                    stats |-> [system_start_time |-> MINUTE_MS, counters |-> counters],
                    backupId |-> Len(statsBackups) + 1]
     IN statsBackups' = Append(statsBackups,
                          [package |-> AesGcmEncrypt(DeriveKeyFromUuid(STATS_BACKUP_UUID),
                                                     NoIv, JsonStringify(backup)),
                           timestamp |-> timestamp,
                           written |-> backup])
  /\ UNCHANGED << now, aircraftCache, aircraftBatch, encryptedAircraftBatch, batchUuidMap,
                  uploadQueue, activeUploads, availableSlots, uploadProgress,
                  isProcessingQueue, inflight, stats, uploadStats, nildbKeysSaved,
                  currentMinuteEncryptionKey, keysGenerated, archive,
                  outOfRangeUpdates, ledger, batchesCreated, encryptions, sightings,
                  systemStatsRow, restoredRow, restoreOutcome >>
  /\ UNCHANGED pollLog
  /\ UNCHANGED persistVars
  /\ UNCHANGED trackingVars
  /\ UNCHANGED << aircraftTracks, keyVars, tpmVars >>

\* The restoring node has run before: its table holds the row that its
\* persistStats wrote last.
LocalRowFound(updated_at, counters) ==
  /\ env.persists > 0
  /\ Spent("persists")
  /\ ~restoredRow.exists
  /\ restoredRow' = [exists |-> TRUE, counters |-> counters,
                     system_start_time |-> 0, updated_at |-> updated_at]
  /\ UNCHANGED << now, aircraftCache, aircraftBatch, encryptedAircraftBatch, batchUuidMap,
                  uploadQueue, activeUploads, availableSlots, uploadProgress,
                  isProcessingQueue, inflight, stats, uploadStats, nildbKeysSaved,
                  currentMinuteEncryptionKey, keysGenerated, archive,
                  outOfRangeUpdates, ledger, batchesCreated, encryptions, sightings,
                  systemStatsRow, statsBackups, restoreOutcome >>
  /\ UNCHANGED pollLog
  /\ UNCHANGED persistVars
  /\ UNCHANGED trackingVars
  /\ UNCHANGED << aircraftTracks, keyVars, tpmVars >>

\* The tracker's variables that the steps of backupStats and persistStats on
\* the restoring node, and the services beside the tracker, leave alone.
restoreFrame == << now, aircraftCache, aircraftBatch, encryptedAircraftBatch,
                   batchUuidMap, uploadQueue, activeUploads, availableSlots,
                   uploadProgress, isProcessingQueue, inflight, stats, uploadStats,
                   nildbKeysSaved, currentMinuteEncryptionKey, keysGenerated, archive,
                   outOfRangeUpdates, ledger, batchesCreated, encryptions, sightings,
                   systemStatsRow, restoreOutcome, pollLog, persistVars, pollingVars,
                   initialBackupTimers, backupInterval, backupIntervals, tableVars,
                   stopLog, aircraftTracks, keyVars, tpmVars >>

\* persistStats of the run before the restore wrote the node's row again:
\* the counters have grown by a poll, updated_at is the time of the write.
LocalRowPersisted ==
  /\ env.persists > 0
  /\ Spent("persists")
  /\ restoredRow.exists
  /\ ~restoreOutcome.ran
  /\ restoredRow' = [restoredRow EXCEPT
                       !.counters = CountersAfter(@.total_poll_cycles + 1),
                       !.updated_at = now]
  /\ UNCHANGED << restoreFrame, sideVars, statsBackups, backupRead >>

\* backupStats on the restoring node, up to its await: findOne is issued and
\* returns the row of this instant.
BackupReadsRow ==
  /\ env.backups > 0
  /\ restoredRow.exists
  /\ ~backupRead.exists
  /\ backupRead' = restoredRow
  /\ UNCHANGED << restoreFrame, sideVars, env, statsBackups, restoredRow >>

\* backupStats continues with the row it read: the backup object takes
\* timestamp: Date.now() and the row's counters, and is uploaded (sealed, as
\* in SnapshotFound, with the key the fixed UUID opens).
BackupStamped ==
  /\ backupRead.exists
  /\ env.backups > 0
  /\ Spent("backups")
  /\ LET backup == BackupObject(backupRead, now, Len(statsBackups) + 1)
     IN statsBackups' = Append(statsBackups,
                          [package |-> AesGcmEncrypt(DeriveKeyFromUuid(STATS_BACKUP_UUID),
                                                     NoIv, JsonStringify(backup)),
                           timestamp |-> backup.timestamp,
                           written |-> backup])
  /\ backupRead' = NoRow
  /\ UNCHANGED << restoreFrame, sideVars, restoredRow >>

RestoreProfiles == { Profile("restore", {}, 0, 0, 0, 1, RestoreRuns) }

RestoreInit ==
  /\ env \in RestoreProfiles
  /\ Constructed
  /\ isRunning = FALSE
  /\ currentStatsId = 0
  /\ calls = NoCalls

RestoreNext ==
  \/ \E t \in RestoreTimes : \E n \in 1..RestoreRuns : SnapshotFound(t, CountersAfter(n + 1))
  \/ \E t \in RestoreTimes : LocalRowFound(t, CountersAfter(1))
  \/ LocalRowPersisted
  \/ BackupReadsRow
  \/ BackupStamped
  \/ RestoreStats
  \/ \E d \in ClockSteps(env.profile) : AdvanceClock(d)

\* restoreStatsFromBackup on a node with or without a row of its own, with
\* the snapshots an archive may hold.
RestoreSpec == RestoreInit /\ [][RestoreNext]_vars

\* ------------------------------------------------------- WalletAuthService
CHALLENGE_EXPIRY_MS == 5 * 60 * 1000

\* The node's wallet, and another one.
NodeWallet == "node"
Wallets == {NodeWallet, "guest"}

\* crypto.randomBytes(32): the nonce of the n-th challenge is fresh.
Nonces == 1..MaxChallenges

\* `${LOGIN_MESSAGE}\n\nNonce: ${nonce}`; nonce 0 stands for any other text.
MessageWithNonce(nonce) == [text |-> "LOGIN_MESSAGE", nonce |-> nonce]

\* An RSA-PSS signature of `message` made with the key of `signer`.
Sign(signer, message) == [signer |-> signer, message |-> message]

\* verifySignatureWithPublicKey(message, signature, owner's public key).
VerifySignatureWithPublicKey(message, signature, owner) ==
  signature.signer = owner /\ signature.message = message

\* What a client may present with a nonce: the node's wallet with its
\* signature of the message with that nonce, with its signature of another
\* text or with another wallet's signature, and another wallet with its own
\* signature.
Requests(nonce) ==
  { [walletAddress |-> NodeWallet, signature |-> signature] :
      signature \in { Sign(NodeWallet, MessageWithNonce(nonce)),
                      Sign(NodeWallet, MessageWithNonce(0)),
                      Sign("guest", MessageWithNonce(nonce)) } }
  \cup { [walletAddress |-> "guest", signature |-> Sign("guest", MessageWithNonce(nonce))] }

\* validateWalletLogin: if (Date.now() > challenge.expiresAt).
Expired(t, challenge) == t > challenge.expiresAt

\* this.challenges.delete(nonce).
MapDelete(map, key) == [k \in DOMAIN map \ {key} |-> map[k]]

\* The mutant: the challenge stays in the map after it was presented.
ConsumedChallenges_Kept(map, nonce) == map

\* validateWalletLogin step 3: "Delete nonce to prevent replay attacks".
ConsumedChallenges(map, nonce) == MapDelete(map, nonce)

\* What the services beside WalletAuthService hold.
authFrame == << restoreFrame, env, statsBackups, restoredRow, backupRead, flightVars >>

\* generateChallenge.
GenerateChallenge ==
  /\ Len(issuedChallenges) < MaxChallenges
  /\ LET nonce == Len(issuedChallenges) + 1
         challenge == [nonce |-> nonce, timestamp |-> now,
                       expiresAt |-> now + CHALLENGE_EXPIRY_MS]
     IN /\ challenges' = MapSet(challenges, nonce, challenge)
        /\ issuedChallenges' = Append(issuedChallenges, challenge)
  /\ UNCHANGED << authFrame, logins >>

\* validateWalletLogin(walletAddress, signature, nonce) up to its await: the
\* call returns null, or takes the challenge out of the map and awaits the
\* verification of the signature.
ValidateWalletLogin(walletAddress, signature, nonce) ==
  /\ Len(logins) < MaxLogins
  /\ LET call == [walletAddress |-> walletAddress, signature |-> signature,
                  nonce |-> nonce, at |-> now,
                  overlapped |-> \E i \in DOMAIN logins :
                                   /\ logins[i].phase = "verifying"
                                   /\ logins[i].nonce = nonce,
                  consumed |-> FALSE, phase |-> "returned", result |-> "null"]
     IN IF walletAddress # NodeWallet \/ nonce \notin DOMAIN challenges
        THEN /\ logins' = Append(logins, call)
             /\ UNCHANGED challenges
        ELSE IF Expired(now, challenges[nonce])
        THEN /\ logins' = Append(logins, call)
             /\ challenges' = MapDelete(challenges, nonce)
        ELSE /\ logins' = Append(logins, [call EXCEPT !.consumed = TRUE,
                                                      !.phase = "verifying",
                                                      !.result = "pending"])
             /\ challenges' = ConsumedChallenges(challenges, nonce)
  /\ UNCHANGED << authFrame, issuedChallenges >>

\* The verification awaited by call i returns: the user, or null.
VerificationReturns(i) ==
  /\ logins[i].phase = "verifying"
  /\ LET isValid == VerifySignatureWithPublicKey(MessageWithNonce(logins[i].nonce),
                                                 logins[i].signature, NodeWallet)
     IN logins' = [logins EXCEPT ![i].phase = "returned",
                                 ![i].result = IF isValid THEN "user" ELSE "null"]
  /\ UNCHANGED << authFrame, challenges, issuedChallenges >>

\* cleanupExpiredChallenges, run every minute.
CleanupExpiredChallenges ==
  /\ \E n \in DOMAIN challenges : challenges[n].expiresAt < now
  /\ challenges' = [n \in { k \in DOMAIN challenges : ~(challenges[k].expiresAt < now) }
                      |-> challenges[n]]
  /\ UNCHANGED << authFrame, issuedChallenges, logins >>

AuthProfiles == { Profile("auth", {}, 0, 0, 0, AuthTicks, 0) }

AuthInit ==
  /\ env \in AuthProfiles
  /\ Constructed
  /\ isRunning = FALSE
  /\ currentStatsId = 0
  /\ calls = NoCalls

AuthNext ==
  \/ GenerateChallenge
  \/ \E nonce \in Nonces : \E request \in Requests(nonce) :
       ValidateWalletLogin(request.walletAddress, request.signature, nonce)
  \/ \E i \in DOMAIN logins : VerificationReturns(i)
  \/ CleanupExpiredChallenges
  \/ \E d \in ClockSteps(env.profile) : AdvanceClock(d)

\* The login boundary: challenges are generated, presented, verified and
\* cleaned up while time passes.
AuthSpec == AuthInit /\ [][AuthNext]_vars

\* ------------------------------------------------------- FlightDataService
\* config.get('antennas'): every list of up to MaxAntennas antennas, each
\* enabled or not; an antenna's id is its place in the list.
RECURSIVE AntennaListsOf(_)
AntennaListsOf(n) ==
  IF n = 0 THEN { << >> }
  ELSE LET shorter == AntennaListsOf(n - 1)
       IN shorter \cup
          { Append(list, [id |-> n, enabled |-> e]) :
              list \in { l \in shorter : Len(l) = n - 1 }, e \in BOOLEAN }

AntennaLists == AntennaListsOf(MaxAntennas)

\* What httpService.get(antenna.url) gives: a body with aircraft, with an
\* empty list or without the list, or an error.
Responses ==
  { [ok |-> TRUE, data |-> [aircraft |-> << "aircraft" >>]],
    [ok |-> TRUE, data |-> [aircraft |-> << >>]],
    [ok |-> TRUE, data |-> [messages |-> 0]],
    [ok |-> FALSE, data |-> [messages |-> 0]] }

\* data.aircraft?.length || 0.
AircraftCount(data) ==
  IF "aircraft" \in DOMAIN data THEN Len(data.aircraft) ELSE 0

\* The mutant: no antenna is skipped.
Skips_Never(antenna) == FALSE

\* if (!antenna.enabled) { ...; continue; }
Skips(antenna) == ~antenna.enabled

\* for (const antenna of this.urls): the first antenna from place i on that
\* is not skipped, or Len(list) + 1.
RECURSIVE NextFetched(_, _)
NextFetched(list, i) ==
  IF i > Len(list) THEN i
  ELSE IF Skips(list[i]) THEN NextFetched(list, i + 1)
  ELSE i

\* What the services beside FlightDataService hold.
flightFrame == << restoreFrame, env, statsBackups, restoredRow, backupRead, authVars >>

\* The loop goes on from place i: it awaits the next fetch, or ends and
\* release() hands the mutex to the next waiter.
LoopFrom(i) ==
  LET j == NextFetched(urls, i)
  IN IF j > Len(urls)
     THEN /\ flightRun' = [flightRun EXCEPT !.index = 0, !.phase = "done"]
          /\ mutex' = [mutex EXCEPT !.locked = mutex.waiters > 0]
     ELSE /\ flightRun' = [flightRun EXCEPT !.index = j, !.phase = "fetching"]
          /\ UNCHANGED mutex

\* A caller holds the mutex, at once or after waiting for it, and enters the
\* loop.
RunStarts(waiters, waited) ==
  LET j == NextFetched(urls, 1)
  IN /\ flightFetches' = << >>
     /\ flightUploads' = << >>
     /\ IF j > Len(urls)
        THEN /\ flightRun' = [run |-> flightRun.run + 1, index |-> 0, phase |-> "done",
                            waited |-> waited]
             /\ mutex' = [locked |-> waiters > 0, waiters |-> waiters]
        ELSE /\ flightRun' = [run |-> flightRun.run + 1, index |-> j, phase |-> "fetching",
                            waited |-> waited]
             /\ mutex' = [locked |-> TRUE, waiters |-> waiters]

\* fetchAircraftData(): await this.mutex.acquire().
FetchAircraftData ==
  /\ flightRun.run + mutex.waiters < MaxRuns
  /\ IF mutex.locked
     THEN /\ mutex' = [mutex EXCEPT !.waiters = @ + 1]
          /\ UNCHANGED << flightRun, flightFetches, flightUploads >>
     ELSE RunStarts(0, FALSE)
  /\ UNCHANGED << flightFrame, urls >>

\* A caller that waited for the mutex is given it.
WaiterAcquires ==
  /\ mutex.locked
  /\ mutex.waiters > 0
  /\ flightRun.phase \in {"idle", "done"}
  /\ RunStarts(mutex.waiters - 1, TRUE)
  /\ UNCHANGED << flightFrame, urls >>

\* The awaited httpService.get returns or throws.
FetchReturns(response) ==
  /\ flightRun.phase = "fetching"
  /\ LET antenna == urls[flightRun.index]
     IN /\ flightFetches' = Append(flightFetches,
                                   [antenna |-> antenna.id, response |-> response])
        /\ IF response.ok /\ AircraftCount(response.data) # 0
           THEN /\ flightUploads' = Append(flightUploads,
                                           [source |-> antenna.id,
                                            aircraft |-> response.data.aircraft,
                                            settled |-> "pending"])
                /\ flightRun' = [flightRun EXCEPT !.phase = "uploading"]
                /\ UNCHANGED mutex
           ELSE /\ LoopFrom(flightRun.index + 1)
                /\ UNCHANGED flightUploads
  /\ UNCHANGED << flightFrame, urls >>

\* The awaited archiveService.uploadParquet returns a transaction id or
\* throws; the loop goes on either way.
ArchiveUploadSettles(outcome) ==
  /\ flightRun.phase = "uploading"
  /\ flightUploads' = [flightUploads EXCEPT ![Len(flightUploads)].settled = outcome]
  /\ LoopFrom(flightRun.index + 1)
  /\ UNCHANGED << flightFrame, urls, flightFetches >>

FlightProfiles == { Profile("flight", {}, 0, 0, 0, 0, 0) }

FlightInit ==
  /\ env \in FlightProfiles
  /\ \E antennas \in AntennaLists : Services(NewStatsRow(StartMs), antennas)
  /\ isRunning = FALSE
  /\ currentStatsId = 0
  /\ calls = NoCalls

FlightNext ==
  \/ FetchAircraftData
  \/ WaiterAcquires
  \/ \E response \in Responses : FetchReturns(response)
  \/ \E outcome \in {"txId", "error"} : ArchiveUploadSettles(outcome)

\* The legacy batch collection: fetchAircraftData is called, also while an
\* earlier call runs, over every configured antenna list.
FlightSpec == FlightInit /\ [][FlightNext]_vars

\* ------------------------------------------------------------------ claims
\* The batches enqueued so far, each with what it added to the counters.
Batches ==
  UNION { { [pipe |-> p, serial |-> s, book |-> ledger[p][s]] : s \in DOMAIN ledger[p] } :
          p \in Pipes }

\* Both upload queues are empty and all five slots of pipeline p are free.
Idle(p) ==
  /\ \A q \in Pipes : Len(uploadQueue[q]) = 0
  /\ Len(availableSlots[p]) = 5
  /\ \A s \in 1..5 : s \in SeqToSet(availableSlots[p])

\* C1: for each pipeline, whenever both upload queues are empty and all five
\* slots of the pipeline are free, attempted = succeeded + failed.
C1_AttemptedIsSucceededPlusFailed ==
  \A p \in Pipes :
    Idle(p) => uploadStats[p].attempted = uploadStats[p].succeeded + uploadStats[p].failed

\* A pipeline is idle again after its batch was retried four times and given up.
C1_Witness ==
  \E p \in Pipes :
    /\ Idle(p)
    /\ uploadStats[p].attempted = 1
    /\ uploadStats[p].failed = 1
    /\ uploadStats[p].retries = 4

\* C2: the item enqueued on the encrypted queue carries the packageUuid of the
\* clear item of the same batch (same batchId), and whenever both uploads of a
\* batch were accepted they carried the same Package-UUID.
C2_SamePackageUuid ==
  /\ \A s \in DOMAIN ledger["enc"] :
       /\ s \in DOMAIN ledger["clear"]
       /\ ledger["enc"][s].batchId = ledger["clear"][s].batchId
       /\ ledger["enc"][s].packageUuid = ledger["clear"][s].packageUuid
  /\ \A x \in archive : \A y \in archive :
       (x.pipe = "clear" /\ y.pipe = "enc" /\ x.serial = y.serial)
         => x.packageUuid = y.packageUuid

\* Both uploads of the second batch were accepted, one of them on a retry.
C2_Witness ==
  \E x \in archive : \E y \in archive :
    /\ x.pipe = "clear" /\ y.pipe = "enc"
    /\ x.serial = y.serial /\ x.serial >= 2
    /\ (x.attempt > 1 \/ y.attempt > 1)

\* C3: every attempt of an encrypted batch submits the bytes the first attempt
\* submitted: same IV, same Encryption-Key-UUID, same Data-Hash.
C3_RetriesResubmitSameBytes ==
  \A r \in inflight["enc"] :
    (r.phase = "uploading" /\ r.first.prepared)
      => /\ r.sent.iv = r.first.iv
         /\ r.sent.keyUuid = r.first.keyUuid
         /\ r.sent.dataHash = r.first.dataHash

\* C4: in each pipeline activeUploads <= 5, activeUploads plus the free slots
\* is 5, and no two in-flight uploads hold the same slot.
C4_SlotsBounded ==
  \A p \in Pipes :
    /\ activeUploads[p] <= 5
    /\ activeUploads[p] + Len(availableSlots[p]) = 5
    /\ Cardinality(inflight[p]) = activeUploads[p]
    /\ \A r1 \in inflight[p] : \A r2 \in inflight[p] : r1.slot = r2.slot => r1 = r2
    /\ \A r \in inflight[p] : r.slot \in 1..5 /\ r.slot \notin SeqToSet(availableSlots[p])

\* Five uploads in flight, one per slot, and a sixth batch waiting.
C4_Witness ==
  \E p \in Pipes :
    /\ activeUploads[p] = 5
    /\ Len(uploadQueue[p]) >= 1
    /\ Cardinality({ r.slot : r \in inflight[p] }) = 5

\* C5: a batch that failed k times (1 <= k <= 4) and then succeeded added 1 to
\* attempted, 1 to succeeded, 0 to failed and k to retries, and waited
\* 1000, 2000, 4000, 8000 ms before its first, second, third, fourth retry.
C5_RetriesThenSuccess ==
  \A b \in Batches :
    b.book.succeeded >= 1
      => /\ b.book.succeeded = 1
         /\ b.book.attempted = 1
         /\ b.book.failed = 0
         /\ b.book.retries = b.book.failures + b.book.upsertFailures
         /\ b.book.retries = b.book.attempts - 1
         /\ b.book.retries <= 4
         /\ b.book.waits = SubSeq(<< 1000, 2000, 4000, 8000 >>, 1, b.book.retries)

\* A batch went through on its fifth attempt.
C5_Witness ==
  \E b \in Batches : b.book.succeeded = 1 /\ b.book.retries = 4 /\ b.book.failures = 4

\* C6: a batch whose every attempt fails is attempted 5 times and dropped:
\* failed +1, succeeded +0, attempted +1, never a sixth attempt, slot released.
C6_DroppedAfterFiveAttempts ==
  \A b \in Batches :
    /\ b.book.attempts <= 5
    /\ b.book.failed <= 1
    /\ (b.book.failures + b.book.upsertFailures = 5)
         => /\ b.book.failed = 1
            /\ b.book.succeeded = 0
            /\ b.book.attempted = 1
            /\ b.book.attempts = 5
            /\ b.book.released
            /\ \A r \in inflight[b.pipe] : r.item.serial # b.serial
    /\ b.book.failed = 1 => b.book.failures + b.book.upsertFailures = 5

\* A batch was given up after five network failures.
C6_Witness ==
  \E b \in Batches : b.book.failed = 1 /\ b.book.failures = 5 /\ b.book.released

\* C7: a batch whose archive upload succeeded is counted as succeeded once even
\* if the track upsert failed: no failure is booked for it, every retry booked
\* answers an attempt whose archive upload failed, and the batch is not
\* uploaded to the archive a second time.
C7_UpsertFailureStillSucceeds ==
  \A b \in Batches :
    /\ b.book.uploads <= 1
    /\ b.book.uploads = 1 => b.book.succeeded = 1 /\ b.book.failed = 0
    /\ b.book.retries <= b.book.failures

\* C8: a hex that returns after a poll saw it missing for more than the
\* threshold was first marked out of range and is then classified REAPPEARED.
C8_ReturnIsReappeared ==
  \A h \in AllHexes :
    sightings[h].returnedAs # "none"
      => sightings[h].returnedAs = "REAPPEARED" /\ sightings[h].returnedAfterMark

\* C9: a restore that finds a snapshot decrypts it with the fixed UUID and
\* reads the counters that were written; a node without a row gets them.
C9_SnapshotRestores ==
  (restoreOutcome.ran /\ restoreOutcome.snapshot.found)
    => /\ restoreOutcome.read.found
       /\ restoreOutcome.read.stats.counters = restoreOutcome.snapshot.stats.counters
       /\ restoredRow.exists
       /\ restoredRow.counters = restoreOutcome.snapshot.stats.counters

\* C10: two encryptions carry the same Encryption-Key-UUID exactly when they
\* happen in the same minute epoch.
C10_KeyUuidPerMinute ==
  \A e1 \in encryptions : \A e2 \in encryptions :
    (e1.at \div 60000 = e2.at \div 60000) <=> (e1.keyUuid = e2.keyUuid)

\* Encryptions at two instants of one minute and at an instant of the next.
C10_Witness ==
  \E e1 \in encryptions : \E e2 \in encryptions : \E e3 \in encryptions :
    /\ e1.at < e2.at
    /\ e1.at \div 60000 = e2.at \div 60000
    /\ e3.at \div 60000 = (e1.at \div 60000) + 1

\* The hexes of a response, and the first observation of hex h in it.
HexesOf(response) == { response.aircraft[i].hex : i \in 1..Len(response.aircraft) }

FirstOf(response, h) ==
  LET i == CHOOSE k \in 1..Len(response.aircraft) :
             /\ response.aircraft[k].hex = h
             /\ \A j \in 1..(k - 1) : response.aircraft[j].hex # h
  IN response.aircraft[i]

\* The last poll processed the response the poll before it processed.
SameResponseAgain ==
  /\ pollLog.response.kind = "data"
  /\ pollLog.previous.response = pollLog.response

\* Apart from lastSeen, the cache entry of h is what it was before the poll.
OnlyLastSeenMoved(h) ==
  /\ [aircraftCache[h] EXCEPT !.lastSeen = 0] = [pollLog.cacheBefore[h] EXCEPT !.lastSeen = 0]
  /\ aircraftCache[h].lastSeen >= pollLog.cacheBefore[h].lastSeen

\* C11 as stated: a poll that processes the response of the poll before it
\* buffers and enqueues nothing, changes no aircraft counter and no upload
\* counter, writes nothing to the track store, and moves only lastSeen.
C11_SameResponseNoBatch ==
  SameResponseAgain
    => /\ pollLog.buffered = << >> /\ pollLog.bufferedEncrypted = << >>
       /\ \A p \in Pipes : pollLog.enqueued[p] = << >>
       /\ ~pollLog.countersTouched /\ ~pollLog.uploadsTouched
       /\ pollLog.outOfRange = {}
       /\ \A h \in AllHexes : OnlyLastSeenMoved(h)

\* C11 amended: when the second poll runs no more than the reappear threshold
\* after the first, it buffers and enqueues nothing, changes no aircraft
\* counter and no upload counter, and of the entries of the aircraft in the
\* response only lastSeen moves (to the time of the poll); an aircraft that is
\* not in the response is left alone or marked out of range and evicted.
C11_SameResponseInTimeNoBatch ==
  (SameResponseAgain /\ pollLog.at - pollLog.previous.at <= REAPPEAR_THRESHOLD_MS)
    => /\ pollLog.buffered = << >> /\ pollLog.bufferedEncrypted = << >>
       /\ \A p \in Pipes : pollLog.enqueued[p] = << >>
       /\ ~pollLog.countersTouched /\ ~pollLog.uploadsTouched
       /\ \A h \in HexesOf(pollLog.response) :
            /\ h \notin pollLog.outOfRange
            /\ OnlyLastSeenMoved(h)
            /\ aircraftCache[h].lastSeen = pollLog.at
       /\ \A h \in AllHexes \ HexesOf(pollLog.response) :
            \/ aircraftCache[h] = pollLog.cacheBefore[h]
            \/ h \in pollLog.outOfRange /\ aircraftCache[h] = NoState

\* The same aircraft came twice, half a second apart, and lastSeen moved.
C11_Witness ==
  /\ SameResponseAgain
  /\ pollLog.at > pollLog.previous.at
  /\ pollLog.at - pollLog.previous.at <= REAPPEAR_THRESHOLD_MS
  /\ \E h \in HexesOf(pollLog.response) :
       aircraftCache[h].lastSeen > pollLog.cacheBefore[h].lastSeen

\* The observation of h in the last poll found a cache entry with its hash.
UnchangedFingerprint(h) ==
  /\ pollLog.response.kind = "data"
  /\ h \in HexesOf(pollLog.response)
  /\ pollLog.cacheBefore[h].present
  /\ CalculateAircraftHash(FirstOf(pollLog.response, h)) = pollLog.cacheBefore[h].hash

\* The observation of h in the last poll was buffered or produced an event.
ProducedEvent(h) ==
  \/ pollLog.events[h] \in {"NEW", "UPDATED", "REAPPEARED"}
  \/ \E i \in 1..Len(pollLog.buffered) : pollLog.buffered[i].hex = h
  \/ \E i \in 1..Len(pollLog.bufferedEncrypted) : pollLog.bufferedEncrypted[i].hex = h

\* C12 as stated: an observation whose hex is cached with the same hash is not
\* buffered and produces no NEW, UPDATED or REAPPEARED event.
C12_UnchangedNoEvent ==
  \A h \in AllHexes : UnchangedFingerprint(h) => ~ProducedEvent(h)

\* C12 amended: an observation whose hex is cached with the same hash and was
\* last seen no more than the reappear threshold ago is not buffered and
\* produces no NEW, UPDATED or REAPPEARED event.
C12_UnchangedInTimeNoEvent ==
  \A h \in AllHexes :
    (UnchangedFingerprint(h)
       /\ pollLog.at - pollLog.cacheBefore[h].lastSeen <= REAPPEAR_THRESHOLD_MS)
      => ~ProducedEvent(h) /\ pollLog.events[h] = "UNCHANGED"

\* An unchanged aircraft was passed over in a poll that buffered another one.
C12_Witness ==
  /\ pollLog.buffered # << >>
  /\ \E h \in AllHexes :
       /\ UnchangedFingerprint(h)
       /\ pollLog.at - pollLog.cacheBefore[h].lastSeen <= REAPPEAR_THRESHOLD_MS
       /\ pollLog.at > pollLog.cacheBefore[h].lastSeen
       /\ pollLog.events[h] = "UNCHANGED"

\* The concatenation of a sequence of sequences.
RECURSIVE Flatten(_)
Flatten(ss) == IF Len(ss) = 0 THEN << >> ELSE Head(ss) \o Flatten(Tail(ss))

\* C13: a tick that buffered n > 0 events enqueues ceil(n/30) items on each
\* queue, each of 1 to 30 events, which concatenated in enqueue order give the
\* buffered events in their order; both buffers are empty afterwards.
C13_ChunksOfThirty ==
  (pollLog.response.kind = "data" /\ Len(pollLog.buffered) > 0)
    => /\ \A p \in Pipes :
            /\ Len(pollLog.enqueued[p]) = (Len(pollLog.buffered) + 29) \div 30
            /\ \A i \in 1..Len(pollLog.enqueued[p]) :
                 Len(pollLog.enqueued[p][i]) \in 1..30
       /\ Flatten(pollLog.enqueued["clear"]) = pollLog.buffered
       /\ Flatten(pollLog.enqueued["enc"]) = pollLog.bufferedEncrypted
       /\ aircraftBatch = << >> /\ encryptedAircraftBatch = << >>

\* 45 events were split into items of 30 and 15 on both queues.
C13_Witness ==
  /\ Len(pollLog.buffered) = 45
  /\ \A p \in Pipes :
       /\ Len(pollLog.enqueued[p]) = 2
       /\ Len(pollLog.enqueued[p][1]) = 30
       /\ Len(pollLog.enqueued[p][2]) = 15

\* The batches of pipeline p that were handed to a slot.
Dispatched(p) == { s \in DOMAIN ledger[p] : ledger[p][s].attempts >= 1 }

\* C14: no batch is dispatched while a batch enqueued before it still waits in
\* the same queue; the queue holds the waiting batches in enqueue order.
C14_DispatchInEnqueueOrder ==
  \A p \in Pipes :
    /\ \A i \in 1..Len(uploadQueue[p]) : \A s \in Dispatched(p) :
         s < uploadQueue[p][i].serial
    /\ \A i \in 1..Len(uploadQueue[p]) : \A j \in 1..Len(uploadQueue[p]) :
         i < j => uploadQueue[p][i].serial < uploadQueue[p][j].serial

\* Of three batches enqueued while three slots were busy, the first two were
\* dispatched and the third waits.
C14_Witness ==
  \E p \in Pipes :
    /\ Len(uploadQueue[p]) = 1
    /\ uploadQueue[p][1].serial = 6
    /\ Dispatched(p) = 1..5

\* C19: a batch whose upload fails validation (invalid snapshot time) is
\* failed after a single attempt: no retry is booked and no further attempt made.
C19_ValidationErrorIsFatal ==
  \A b \in Batches :
    b.book.batchId.snapshotTime <= 0
      => /\ b.book.attempts <= 1
         /\ b.book.retries = 0
         /\ b.book.failures >= 1 => b.book.failed = 1

\* C15: after stopTracking, no batch that waited in a queue when it was called
\* is dispatched: none of them has had an upload attempt while tracking is
\* stopped.
C15_QueuedDroppedOnStop ==
  stopLog.stopped
    => \A p \in Pipes : \A s \in stopLog.queued[p] : ledger[p][s].attempts = 0

\* C16: after stopTracking no stats-persist timer and no backup timer (the
\* initial 60 s one, the periodic 5 min one) fires.
C16_NoTimerAfterStop ==
  stopLog.stopped => stopLog.fired = {}

\* The feed requests whose promise has not settled.
Unsettled == { q \in DOMAIN requests : requests[q].state # "settled" }

\* The loops whose poll awaits the feed.
Fetching == { l \in DOMAIN pollLoops : pollLoops[l].phase = "fetch" }

\* C18: at most one feed request is in flight at any time, and every poll
\* that awaits the feed awaits that request, however poll ticks, stopTracking
\* and startTracking interleave.
C18_SingleFlight ==
  /\ Cardinality(Unsettled) <= 1
  /\ \A l \in Fetching : pollLoops[l].request \in Unsettled
  /\ pendingRequest # 0 => pendingRequest \in Unsettled

\* After a stop and a restart two poll loops run, and the poll of one awaits
\* the request the other made.
C18_Witness ==
  /\ calls.stops < MaxStops
  /\ \E l1 \in Fetching : \E l2 \in Fetching :
       /\ pollLoops[l1].owner /\ ~pollLoops[l2].owner
       /\ pollLoops[l1].request = pollLoops[l2].request
       /\ requests[pollLoops[l1].request].state = "flying"

\* C20: when the last feed request timed out or its body did not parse, the
\* cached body, the ETag and Last-Modified are all cleared, and the polls that
\* awaited it get the error.
C20_TimeoutOrParseDropsCache ==
  fetchLog.outcome \in {"timeout", "parse"}
    => /\ cachedAircraftData = NoResponse
       /\ lastETag = 0
       /\ lastModified = 0
       /\ \A l \in DOMAIN pollLoops :
            pollLoops[l].phase = "resumed" => pollLoops[l].result = Failure

\* C17: polling never halts: a running tracker never stays for ever short of
\* a poll the horizon still allows, whatever the polls before it met; it
\* polls on until it is stopped or the horizon is spent.
C17_PollingNeverHalts == []<>(~isRunning \/ env.polls = 0)

\* A loop polls again after a poll whose fetch failed.
C17_Witness ==
  /\ fetchLog.outcome \in {"timeout", "error", "parse"}
  /\ \E l \in Fetching :
       /\ pollLoops[l].completed >= 1
       /\ requests[pollLoops[l].request].state = "flying"
       /\ pollLoops[l].request > fetchLog.request

\* The change events of hex h whose clear upload reached the archive.
EventsOf(h) ==
  { d.serial : d \in { x \in archive : x.pipe = "clear" /\ h \in HexList(x.batch) } }

\* Every batch made so far was uploaded, by both pipelines, and none failed.
AllUploaded ==
  \A p \in Pipes :
    /\ inflight[p] = {}
    /\ Len(uploadQueue[p]) = 0
    /\ uploadStats[p].failed = 0
    /\ uploadStats[p].succeeded = batchesCreated[p]

\* C22: once the clear and the encrypted upload of each of the k change
\* events of a hex have succeeded, its track row has upload_count = k and
\* total_updates = k - 1.
C22_RowCountsEvents ==
  AllUploaded =>
    \A h \in DOMAIN aircraftTracks :
      /\ aircraftTracks[h].upload_count = Cardinality(EventsOf(h))
      /\ aircraftTracks[h].total_updates = Cardinality(EventsOf(h)) - 1

\* C24: when no encrypted batch is queued or in flight, nildbKeysSaved is the
\* number of encrypted batches counted as succeeded: one per succeeded batch,
\* none per failed batch.
C24_KeysSavedPerSucceededBatch ==
  (inflight["enc"] = {} /\ Len(uploadQueue["enc"]) = 0)
    => nildbKeysSaved = uploadStats["enc"].succeeded

\* The batch entries in the buffers, the queues and the uploads in flight.
BatchedEntries ==
  SeqToSet(aircraftBatch) \cup SeqToSet(encryptedAircraftBatch)
  \cup UNION { UNION { SeqToSet(uploadQueue[p][i].batch) : i \in 1..Len(uploadQueue[p]) } :
               p \in Pipes }
  \cup UNION { SeqToSet(r.item.batch) : r \in inflight["clear"] \cup inflight["enc"] }

\* C27: no observation without hex is in a batch buffer, an upload queue or
\* an upload in flight, and the state cache has no entry for it.
C27_NoMissingHexBatched ==
  /\ \A e \in BatchedEntries : e.hex # MissingHex
  /\ ~aircraftCache[MissingHex].present

\* The entries of hex h in a batch buffer.
EntriesOf(buffer, h) == { i \in 1..Len(buffer) : buffer[i].hex = h }

\* C28: a poll buffers at most one event per hex of its response, the one of
\* the first observation of the hex, and adds at most one per hex to the
\* aircraft counters.
C28_FirstObservationOnly ==
  pollLog.response.kind = "data" =>
    /\ \A h \in HexesOf(pollLog.response) :
         /\ Cardinality(EntriesOf(pollLog.buffered, h)) <= 1
         /\ Cardinality(EntriesOf(pollLog.bufferedEncrypted, h)) <= 1
         /\ \A i \in EntriesOf(pollLog.buffered, h) :
              pollLog.buffered[i].aircraft = FirstOf(pollLog.response, h)
         /\ \A i \in EntriesOf(pollLog.bufferedEncrypted, h) :
              pollLog.bufferedEncrypted[i].aircraft = FirstOf(pollLog.response, h)
    /\ pollLog.counted <= Cardinality(HexesOf(pollLog.response))

\* The last poll had a response that lists a hex a second time with other
\* field values, and the hex gave an event.
C28_Witness ==
  /\ pollLog.response.kind = "data"
  /\ \E i \in 1..Len(pollLog.response.aircraft) :
     \E j \in (i + 1)..Len(pollLog.response.aircraft) :
       /\ pollLog.response.aircraft[i].hex = pollLog.response.aircraft[j].hex
       /\ pollLog.response.aircraft[i].fp # pollLog.response.aircraft[j].fp
       /\ pollLog.events[pollLog.response.aircraft[i].hex] = "UPDATED"
       /\ EntriesOf(pollLog.buffered, pollLog.response.aircraft[i].hex) # {}

\* What the spec lets an entry of the batchId map grow old: five minutes'
\* worth of batches, and a minute more.
UuidRetentionSec == (5 * MINUTE_MS + MINUTE_MS) \div 1000

\* C29: after a poll that made a batch, no entry of the batchId map is older
\* than the retention window.
C29_UuidMapBounded ==
  (pollLog.at = now /\ Len(pollLog.enqueued["clear"]) > 0)
    => \A id \in DOMAIN batchUuidMap :
         FeedNow(now) - id.snapshotTime <= UuidRetentionSec

\* C30: after a poll that processed a response, every cache entry is of a hex
\* of that response or was last seen within the reappear threshold.
C30_CacheHoldsRecentOnly ==
  pollLog.response.kind = "data" =>
    \A h \in AllHexes :
      aircraftCache[h].present =>
        \/ h \in HexesOf(pollLog.response)
        \/ pollLog.at - aircraftCache[h].lastSeen <= REAPPEAR_THRESHOLD_MS

\* The last poll evicted a hex and kept another that its response did not
\* list.
C30_Witness ==
  /\ pollLog.response.kind = "data"
  /\ pollLog.outOfRange # {}
  /\ \E h \in AllHexes : aircraftCache[h].present /\ h \notin HexesOf(pollLog.response)

\* C21: every row of the track store has first_seen <= last_seen <=
\* last_uploaded.
C21_TrackTimesOrdered ==
  \A h \in DOMAIN aircraftTracks :
    /\ aircraftTracks[h].first_seen <= aircraftTracks[h].last_seen
    /\ aircraftTracks[h].last_seen <= aircraftTracks[h].last_uploaded

\* The non-failed POSTs of the key UUID k.
PostsOf(k) == { i \in DOMAIN keyPosts : keyPosts[i].keyUuid = k /\ keyPosts[i].state # "failed" }

\* C23: a key UUID held in storedMinuteKeys was POSTed to the key-share
\* service once: no other POST of it was answered or is under way.
C23_KeySentOnce ==
  \A k \in SeqToSet(storedMinuteKeys) : Cardinality(PostsOf(k)) <= 1

\* The uploads that completed within the last `window` milliseconds.
CompletedWithin(window) ==
  Cardinality({ i \in DOMAIN completions : now - completions[i] <= window })

\* C26: getCurrentTpm() is the number of uploads completed in the last 60
\* seconds, give or take the uploads of one bucket of 5 seconds.
C26_TpmCountsLastMinute ==
  /\ CompletedWithin(MINUTE_MS - BUCKET_SIZE_MS) <= GetCurrentTpm(tpm)
  /\ GetCurrentTpm(tpm) <= CompletedWithin(MINUTE_MS + BUCKET_SIZE_MS)

\* C25: when restoreStatsFromBackup has found a snapshot, a node without a
\* row has a row with the snapshot's counters; a row at least as new as the
\* snapshot is as it was; an older row has the snapshot's counters and its own
\* system_start_time.
C25_RestoreReconciles ==
  (restoreOutcome.ran /\ restoreOutcome.read.found) =>
    LET before == restoreOutcome.before
        snapshot == restoreOutcome.read
    IN IF ~before.exists
       THEN /\ restoredRow.exists
            /\ restoredRow.counters = snapshot.stats.counters
       ELSE IF before.updated_at >= snapshot.timestamp
       THEN restoredRow = before
       ELSE /\ restoredRow.counters = snapshot.stats.counters
            /\ restoredRow.system_start_time = before.system_start_time

\* A restore has overwritten the counters of a row older than the snapshot.
C25_Witness ==
  /\ restoreOutcome.ran
  /\ restoreOutcome.read.found
  /\ restoreOutcome.before.exists
  /\ restoreOutcome.before.updated_at < restoreOutcome.read.timestamp
  /\ restoreOutcome.before.counters # restoreOutcome.read.stats.counters
  /\ restoredRow.counters = restoreOutcome.read.stats.counters

\* The uploads of a batch with hex h that were counted as succeeded.
SucceededWith(h) ==
  { d \in archive : h \in HexList(d.batch) /\ ledger[d.pipe][d.serial].succeeded = 1 }

\* C39: the upload_count of a row is the number of successful uploads of a
\* batch with its hex, however their lookups and saves interleave.
C39_NoLostTrackUpdate ==
  \A h \in DOMAIN aircraftTracks :
    aircraftTracks[h].upload_count
      = Cardinality({ << d.pipe, d.serial >> : d \in SucceededWith(h) })

\* The bulk updates that marked h out of range.
MarksOf(h) == { u \in outOfRangeUpdates : h \in u.hexes }

\* Hex h was marked out of range, observed again at or after the last mark,
\* and a batch with that observation was uploaded successfully.
UploadedAfterMark(h) ==
  /\ MarksOf(h) # {}
  /\ \E d \in SucceededWith(h) :
       \A u \in MarksOf(h) : d.batch[1].snapshotTime >= FeedNow(u.at)

\* C40: a row whose hex was uploaded successfully after it was marked out of
\* range has status active.
C40_ActiveAfterReturn ==
  \A h \in DOMAIN aircraftTracks :
    UploadedAfterMark(h) => aircraftTracks[h].status = "active"

\* The poll loops that are not over: waiting for their timer, awaiting the
\* feed, or about to continue.
ActiveLoops == { l \in DOMAIN pollLoops : pollLoops[l].phase # "ended" }

\* C37: at most one poll loop is active at any time, also when stopTracking
\* and startTracking are called while a poll awaits its fetch, and when
\* startTracking is called twice while the first call awaits its stats load.
C37_OnePollLoop == Cardinality(ActiveLoops) <= 1

\* The uploads of pipeline p that were counted as attempted and not yet as
\* succeeded or failed.
Uncounted(p) ==
  uploadStats[p].attempted - (uploadStats[p].succeeded + uploadStats[p].failed)

\* C36: in every state of each pipeline, also after stopTracking and a
\* startTracking that reloads the counters from the stats row,
\* 0 <= attempted - (succeeded + failed) <= activeUploads.
C36_InFlightAccounted ==
  \A p \in Pipes : Uncounted(p) >= 0 /\ Uncounted(p) <= activeUploads[p]

\* C35: the clear upload and the encrypted upload of one batch carry the same
\* Encryption-Key-UUID tag, whenever each of the two is performed.
C35_SameKeyTagBothUploads ==
  \A x \in archive : \A y \in archive :
    (x.pipe = "clear" /\ y.pipe = "enc" /\ x.serial = y.serial)
      => x.encryptionKeyUuid = y.encryptionKeyUuid

\* Batch s of pipeline p has reached its terminal outcome and given its slot
\* back.
Terminal(p, s) ==
  /\ ledger[p][s].succeeded + ledger[p][s].failed = 1
  /\ ledger[p][s].released

\* Every batch enqueued on pipeline p so far is done, and the pipeline is idle.
Drained(p) ==
  /\ \A s \in DOMAIN ledger[p] : Terminal(p, s)
  /\ Len(uploadQueue[p]) = 0
  /\ activeUploads[p] = 0
  /\ Len(availableSlots[p]) = MAX_CONCURRENT_UPLOADS
  /\ ~isProcessingQueue[p]

\* C34: on a pipeline whose upload attempts all return or throw, every batch
\* put on the queue is eventually dispatched and reaches a terminal outcome,
\* its slot is free again and the dispatch loop was re-entered: the pipeline
\* is drained again and again, and no batch waits while a slot is free.
C34_QueuedBatchesComplete ==
  /\ []<>(\A p \in env.answered : Drained(p))
  /\ [](\A p \in Pipes : Len(uploadQueue[p]) > 0 => Len(availableSlots[p]) = 0)

\* A batch waits in the queue of a pipeline whose uploads return, all five
\* slots being taken, while tracking runs.
C34_Witness ==
  \E p \in env.answered :
    /\ isRunning
    /\ Len(uploadQueue[p]) > 0
    /\ activeUploads[p] = MAX_CONCURRENT_UPLOADS
    /\ \A s \in DOMAIN ledger[p] : ~Terminal(p, s)

\* C31: once a startTracking call has loaded or created the stats row, the
\* system_stats table holds exactly one row, and the id the tracker writes to
\* is that row's, however startTracking, stopTracking and the restore inside
\* startTracking interleave.
C31_OneStatsRow ==
  currentStatsId # 0 => (statsRows = 1 /\ currentStatsId = 1)

\* The names of the counters of a stats row.
CounterNames == DOMAIN NoCounters

Succeeded(n) == { i \in DOMAIN logins : logins[i].nonce = n /\ logins[i].result = "user" }

\* The calls that presented nonce n and passed the challenge check.
Consumers(n) == { i \in DOMAIN logins : logins[i].nonce = n /\ logins[i].consumed }

\* C32: a challenge nonce is one-time and valid for five minutes: at most one
\* validateWalletLogin call per nonce passes the challenge check and at most
\* one succeeds, a call succeeds only with a nonce that was issued and not
\* after its expiry, and every other call with that nonce is rejected, also
\* one made while the first awaits its verification.
C32_NonceOneTime ==
  \A n \in Nonces :
    /\ Cardinality(Consumers(n)) <= 1
    /\ Succeeded(n) \subseteq Consumers(n)
    /\ \A i \in Consumers(n) :
         /\ n \in DOMAIN issuedChallenges
         /\ logins[i].at >= issuedChallenges[n].timestamp
         /\ logins[i].at <= issuedChallenges[n].timestamp + CHALLENGE_EXPIRY_MS
    /\ \A i \in DOMAIN logins :
         (logins[i].nonce = n /\ ~logins[i].consumed) => logins[i].result = "null"

\* A call with the node's wallet and a valid signature was rejected because
\* an earlier call with the same nonce was still being verified; that call
\* then succeeded.
C32_Witness ==
  \E i \in DOMAIN logins : \E j \in DOMAIN logins :
    /\ i < j
    /\ logins[i].nonce = logins[j].nonce
    /\ logins[i].result = "user"
    /\ logins[j].overlapped
    /\ logins[j].walletAddress = NodeWallet
    /\ logins[j].signature = logins[i].signature
    /\ logins[j].result = "null"

\* The antennas the current run fetched, and those it uploaded for.
FetchedAntennas == { flightFetches[i].antenna : i \in DOMAIN flightFetches }
UploadedAntennas == { flightUploads[i].source : i \in DOMAIN flightUploads }

\* The antennas whose fetch in the current run answered with aircraft.
AnsweredWithAircraft ==
  { flightFetches[i].antenna : i \in
      { k \in DOMAIN flightFetches :
          /\ flightFetches[k].response.ok
          /\ "aircraft" \in DOMAIN flightFetches[k].response.data
          /\ Len(flightFetches[k].response.data.aircraft) >= 1 } }

\* C33: one run of fetchAircraftData uploads for exactly the antennas that
\* are enabled and whose response holds at least one aircraft: a disabled
\* antenna is never fetched or uploaded, every fetch and upload happens once
\* per antenna, an upload follows only a response with aircraft, and when
\* the run is over every enabled antenna was fetched and every one that
\* answered with aircraft was uploaded.
C33_UploadsEnabledNonEmpty ==
  /\ \A a \in FetchedAntennas \cup UploadedAntennas : urls[a].enabled
  /\ Cardinality(FetchedAntennas) = Len(flightFetches)
  /\ Cardinality(UploadedAntennas) = Len(flightUploads)
  /\ UploadedAntennas \subseteq AnsweredWithAircraft
  /\ flightRun.phase = "done" =>
       /\ FetchedAntennas = { a \in DOMAIN urls : urls[a].enabled }
       /\ UploadedAntennas = AnsweredWithAircraft

\* A finished run over a list with a disabled antenna, an enabled one that
\* answered with an empty list and an enabled one that was uploaded.
C33_Witness ==
  /\ flightRun.phase = "done"
  /\ \E a \in DOMAIN urls : ~urls[a].enabled
  /\ \E i \in DOMAIN flightFetches :
       /\ flightFetches[i].response.ok
       /\ AircraftCount(flightFetches[i].response.data) = 0
  /\ Len(flightUploads) >= 1

====
